---- MODULE Spec2Model ----
(***************************************************************************)
(* Offline transaction synchronisation of pdc-pos-offline.                 *)
(*                                                                         *)
(*   models/pos_offline_transaction.py   transaction store, sync, retry    *)
(*   models/pos_offline_queue.py         persistent work queue             *)
(*   models/pos_offline_model_cache.py   read cache with TTL               *)
(*                                                                         *)
(* Every public method is one action that models the whole handler.  Time  *)
(* is a clock in whole seconds (fields.Datetime.now() and                  *)
(* int(datetime.now().timestamp()) both drop the sub-second part).         *)
(***************************************************************************)
EXTENDS Integers, Sequences, FiniteSets, TLC

VARIABLES
    now,        \* the wall clock, in seconds
    txs,        \* table pos.offline.transaction: id -> row
    nextTxId,   \* the serial of the next inserted transaction row
    remoteOk,   \* history: per transaction id, remote calls that returned
    remoteTried,\* history: per transaction id, remote calls made
    lastTx,     \* history: the last call on the transaction model
    budget,     \* what is left of the bounds: clock advances, enqueue calls, failing runs,
                \* cache calls; and the sync attempts allowed per transaction
    call,       \* per worker: the create_transaction call it is in the middle of
    queue,      \* table pos.offline.queue: id -> row
    nextQId,    \* the serial of the next inserted queue row
    seqHigh,    \* history: per user, the highest sequence ever assigned
    qhist,      \* history: per user, enqueue calls and whether anything else touched the rows
    gone,       \* history: the queue rows deleted, with what deleted them
    lastQ,      \* history: the last call that touched the queue table
    cache,      \* table pos.offline.model.cache: id -> row
    nextCacheId,\* the serial of the next inserted cache row
    stale,      \* history: the cache rows invalidated since they were last cached
    lastCache,  \* history: the last call on the cache model
    rowLocks,   \* the cache rows whose row lock an open transaction holds
    blocked,    \* the get_cached_record call waiting for a row lock, if any
    password_attempts,        \* controllers/main.py: user -> list of <<timestamp, ip>>
    password_rate_limit_lock, \* the thread holding the lock, if any
    thread,     \* per thread: the _check_password_rate_limit call it makes
    admitted    \* history: per user, the timestamps of the admitted attempts

txVars == <<txs, nextTxId, remoteOk, remoteTried, lastTx>>
queueVars == <<queue, nextQId, seqHigh, qhist, gone, lastQ>>
cacheVars == <<cache, nextCacheId, stale, lastCache, rowLocks, blocked>>
rateVars == <<password_attempts, password_rate_limit_lock, thread, admitted>>
vars == <<now, budget, txVars, call, queueVars, cacheVars, rateVars>>

----------------------------------------------------------------------------
(* Bounds of the model *)

MaxTx == 2          \* transaction rows ever inserted
MaxTicks == 1       \* clock advances (transaction store)
MaxQTicks == 1      \* clock advances (queue)
MaxOverflowTicks == 1 \* clock advances (queue under pressure)
MaxSyncCalls == 2   \* sync attempts per transaction
MaxEnqueue == 2     \* enqueue_transaction calls
MaxFailRuns == 1    \* processing runs in which an item raises
MaxCacheTicks == 2  \* clock advances (cache)
MaxCacheCalls == 3  \* calls on the cache model
MaxBackoffTicks == 1    \* clock advances (backoff)
MaxRetryTicks == 2      \* clock advances (retry)
MaxRetrySyncs == 11     \* sync attempts per transaction (retry)
MaxBackoffAttempts == 12 \* attempt counts written to a row
MaxDeadLetterTicks == 1  \* clock advances (dead letter queue)
MaxDeadLetterFails == 6  \* failing attempts (dead letter queue)
MaxLockTicks == 1        \* clock advances (row locks)
MaxLockCalls == 4        \* calls on the cache model (row locks)
MaxThreads == 6          \* threads calling the rate limiter
MaxRateTicks == 2        \* clock advances (rate limiter)
MaxOrderTicks == 2       \* clock advances (order of a retry run)
MaxOrderSyncs == 3       \* sync attempts per transaction (order of a retry run)
MaxStaleEnqueue == 2     \* enqueue_transaction calls (abandoned attempts)
MaxStaleFails == 1       \* processing runs in which an item raises (abandoned attempts)
MaxRaceEnqueue == 2      \* enqueue_transaction calls (concurrent calls)
MaxRaceCacheCalls == 3   \* calls on the cache model (concurrent calls)
MaxPurgeTicks == 1       \* clock advances (retention purge)
MaxPurgeEnqueue == 1     \* enqueue_transaction calls (retention purge)
MaxPurgeSyncs == 1       \* sync attempts per transaction (retention purge)

(* Program constants *)

BackoffBase == 5            \* 5 * (2 ** (attempts - 1))
BackoffCap == 3600          \* min(..., 3600)
MaxRetryAttempts == 10      \* ('sync_attempts', '<', 10)
TxRetentionDays == 30       \* cleanup_old_transactions(self, days=30)
OverflowThreshold == 1000   \* if queue_size >= 1000
KeepOnOverflow == 500       \* self._archive_old_queued_items(keep=500)
DeadLetterAttempts == 5     \* if self.attempts >= 5
QueueRetentionDays == 7     \* cleanup_completed_queue_items(self, days=7)
MAX_PASSWORD_ATTEMPTS == 5     \* controllers/main.py
PASSWORD_WINDOW_SECONDS == 60  \* controllers/main.py
CacheTtl == 900             \* ttl_seconds = 900

SecondsPerDay == 24 * 60 * 60
NoTime == 0 - 1             \* a Datetime field that is False
NoId == 0                   \* no record

Users == {"u1", "u2"}

\* request workers that may run a handler at the same time
Workers == {"w1", "w2"}

\* The calls of create_transaction(user, transaction_type, transaction_data,
\* order_id): one call, and the calls that differ from it in one argument.
TxInputs ==
    { <<"u1", "order", "p1", 1>>,
      <<"u2", "order", "p1", 1>>,
      <<"u1", "payment", "p1", 1>>,
      <<"u1", "order", "p2", 1>>,
      <<"u1", "order", "p1", 2>> }

Min(a, b) == IF a < b THEN a ELSE b

----------------------------------------------------------------------------
(* pos.offline.transaction *)

\* hashlib.sha256(json.dumps(order_data, sort_keys=True))[:8]
DataHash(data) == <<"sha8", data>>

\* f"order_{order_id}_{timestamp}_{data_hash}"
generate_idempotency_key(order_id, data, t) ==
    <<"order", order_id, t, DataHash(data)>>

\* the delay without the cap
BackoffUncapped(attempts) == BackoffBase * (2 ^ (attempts - 1))

\* min(5 * (2 ** (sync_attempts - 1)), 3600)
Backoff(attempts) == Min(BackoffBase * (2 ^ (attempts - 1)), BackoffCap)

\* _compute_next_retry_at, a stored computed field
compute_next_retry_at(r) ==
    IF r.sync_status # "failed" \/ r.last_sync_attempt = NoTime
    THEN NoTime
    ELSE r.last_sync_attempt + Backoff(r.sync_attempts)

Recomputed(r) == [r EXCEPT !.next_retry_at = compute_next_retry_at(r)]

\* _compute_should_retry, evaluated at the time of the read
should_retry(r) ==
    /\ r.sync_status = "failed"
    /\ r.next_retry_at # NoTime
    /\ r.next_retry_at <= now

\* self.search([('idempotency_key', '=', key)], limit=1)
SearchKeyNone(key) == {}
SearchKey(key) == {i \in DOMAIN txs : txs[i].idempotency_key = key}

\* the row self.create({...}) inserts, with the field defaults
NewTx(user, ttype, data, order_id, key) ==
    [ user_id |-> user,
      idempotency_key |-> key,
      transaction_type |-> ttype,
      transaction_data |-> data,
      order_id |-> order_id,
      sync_status |-> "pending",
      sync_attempts |-> 0,
      last_sync_attempt |-> NoTime,
      sync_response |-> "none",
      created_at |-> now,
      synced_at |-> NoTime,
      error_message |-> "none",
      next_retry_at |-> NoTime ]

\* the table after inserting row r under the next serial id
Inserted(r) ==
    [i \in DOMAIN txs \cup {nextTxId} |-> IF i = nextTxId THEN r ELSE txs[i]]

\* existing.sync_status = 'duplicate'
MarkDuplicate(r) == Recomputed([r EXCEPT !.sync_status = "duplicate"])

NoKey == <<>>

\* what a call on the transaction model did and returned
TxCall(op, id, key, user, existed, status, remote) ==
    [op |-> op, id |-> id, key |-> key, user |-> user, existed |-> existed,
     status |-> status, remote |-> remote, order |-> <<>>]

\* a new row gets its history counters
Counted(h) == [i \in DOMAIN h \cup {nextTxId} |-> IF i = nextTxId THEN 0 ELSE h[i]]

\* create_transaction from the duplicate check on: `existing` is what
\* self.search returned.  The insert of a key the table already holds is
\* refused by the store (idempotency_key is declared unique=True, and the
\* test suite expects IntegrityError); create_transaction does not catch it.
create_after_check(user, ttype, data, order_id, key, existing) ==
    IF existing # {}
    THEN \E e \in existing :
           /\ txs' = [txs EXCEPT ![e] = MarkDuplicate(txs[e])]
           /\ lastTx' = TxCall("create_transaction", e, key, user, TRUE,
                               txs'[e].sync_status, {})
           /\ UNCHANGED <<nextTxId, remoteOk, remoteTried>>
    ELSE IF \E i \in DOMAIN txs : txs[i].idempotency_key = key
    THEN /\ lastTx' = TxCall("create_transaction", NoId, key, user, TRUE,
                             "IntegrityError", {})
         /\ UNCHANGED <<txs, nextTxId, remoteOk, remoteTried>>
    ELSE /\ nextTxId <= MaxTx
         /\ txs' = Inserted(NewTx(user, ttype, data, order_id, key))
         /\ nextTxId' = nextTxId + 1
         /\ remoteOk' = Counted(remoteOk)
         /\ remoteTried' = Counted(remoteTried)
         /\ lastTx' = TxCall("create_transaction", nextTxId, key, user, FALSE,
                             "pending", {})

\* create_transaction as one uninterrupted call
create_transaction(user, ttype, data, order_id) ==
    LET key == generate_idempotency_key(order_id, data, now)
    IN  create_after_check(user, ttype, data, order_id, key, SearchKey(key))

CreateTransaction ==
    /\ \E c \in TxInputs : create_transaction(c[1], c[2], c[3], c[4])
    /\ UNCHANGED <<now, budget, call, queueVars, cacheVars, rateVars>>

\* sync_transaction: the two early returns
AlreadySyncedNever(r) == FALSE
AlreadySynced(r) == r.sync_status = "synced"
IsDuplicate(r) == r.sync_status = "duplicate"

\* whether sync_transaction reaches self._sync_to_server(sync_payload)
CallsRemote(r) == ~AlreadySynced(r) /\ ~IsDuplicate(r)

\* json.dumps(result)
json_dumps(result) == <<"json", result>>

\* the try branch: the remote call returned `result`
SyncedRow(r, result) ==
    Recomputed([r EXCEPT !.sync_status = "synced",
                         !.synced_at = now,
                         !.sync_response = json_dumps(result),
                         !.sync_attempts = @ + 1,
                         !.last_sync_attempt = now])

\* the except branch without the recomputation of next_retry_at
FailedRowStale(r) ==
    [r EXCEPT !.sync_status = "failed",
              !.sync_attempts = @ + 1,
              !.last_sync_attempt = now,
              !.error_message = "error"]

\* the except branch: the remote call raised
FailedRow(r) ==
    Recomputed([r EXCEPT !.sync_status = "failed",
                         !.sync_attempts = @ + 1,
                         !.last_sync_attempt = now,
                         !.error_message = "error"])

\* how self._sync_to_server(sync_payload) ends: it returns a confirmation,
\* returns something else (None as the method stands, a malformed response, a
\* rejection), or raises
Outcomes == {"ok", "unconfirmed", "raise"}

\* the row after sync_transaction, the remote call ending in `outcome`
SyncRow(r, outcome) ==
    IF ~CallsRemote(r) THEN r
    ELSE IF outcome # "raise" THEN SyncedRow(r, outcome) ELSE FailedRow(r)

\* the 'status' of the dict sync_transaction returns
SyncStatus(r, outcome) ==
    IF AlreadySynced(r) THEN "already_synced"
    ELSE IF IsDuplicate(r) THEN "duplicate_detected"
    ELSE IF outcome # "raise" THEN "synced" ELSE "failed"

\* the history of remote calls after the rows in `ids` were attempted
Tally(h, ids) == [i \in DOMAIN h |-> IF i \in ids THEN h[i] + 1 ELSE h[i]]

sync_transaction(id, outcome) ==
    LET r == txs[id]
        called == IF CallsRemote(r) THEN {id} ELSE {}
    IN  /\ CallsRemote(r) => r.sync_attempts < budget.syncs
        /\ txs' = [txs EXCEPT ![id] = SyncRow(r, outcome)]
        /\ remoteTried' = Tally(remoteTried, called)
        /\ remoteOk' = Tally(remoteOk, IF outcome # "raise" THEN called ELSE {})
        /\ lastTx' = TxCall("sync_transaction", id, r.idempotency_key, r.user_id,
                            TRUE, SyncStatus(r, outcome), called)
        /\ UNCHANGED nextTxId

SyncTransaction ==
    /\ \E id \in DOMAIN txs, outcome \in Outcomes : sync_transaction(id, outcome)
    /\ UNCHANGED <<now, budget, call, queueVars, cacheVars, rateVars>>

\* the failed transactions whose retry time has come, under the limit
DueForRetry ==
    {i \in DOMAIN txs : /\ txs[i].sync_status = "failed"
                        /\ should_retry(txs[i])
                        /\ txs[i].sync_attempts < MaxRetryAttempts}

\* what the ORM makes of ('should_retry', '=', True): should_retry is
\* computed, not stored (store=False) and has no search method, so no SQL
\* condition can be built for it.  The ORM logs "Non-stored field ... cannot
\* be searched" and drops the condition, or it refuses the search.
ShouldRetrySearch == {"dropped", "refused"}

\* the search of retry_failed_transactions with the condition dropped
RetrySearch ==
    {i \in DOMAIN txs : /\ txs[i].sync_status = "failed"
                        /\ txs[i].sync_attempts < MaxRetryAttempts}

\* the rows `ids` as self.search returns them: no order is passed, so the
\* model's _order = 'created_at DESC' applies
ByCreatedDesc(ids) ==
    SortSeq(SelectSeq([i \in 1..(nextTxId - 1) |-> i], LAMBDA i : i \in ids),
            LAMBDA a, b : txs[a].created_at > txs[b].created_at)

retry_failed_transactions ==
    \E orm \in ShouldRetrySearch :
       IF orm = "refused"
       THEN /\ lastTx' = TxCall("retry_failed_transactions", NoId, NoKey, "cron",
                                FALSE, "ValueError", {})
            /\ UNCHANGED <<txs, nextTxId, remoteOk, remoteTried>>
       ELSE \E outcome \in [RetrySearch -> Outcomes] :
              LET called == {i \in RetrySearch : CallsRemote(txs[i])}
              IN  /\ \A i \in called : txs[i].sync_attempts < budget.syncs
                  /\ txs' = [i \in DOMAIN txs |->
                               IF i \in RetrySearch
                               THEN SyncRow(txs[i], outcome[i])
                               ELSE txs[i]]
                  /\ remoteTried' = Tally(remoteTried, called)
                  /\ remoteOk' = Tally(remoteOk,
                                       {i \in called : outcome[i] # "raise"})
                  /\ lastTx' = [TxCall("retry_failed_transactions", NoId, NoKey,
                                       "cron", FALSE, "done", called)
                                EXCEPT !.order = ByCreatedDesc(RetrySearch)]
                  /\ UNCHANGED nextTxId

RetryFailedTransactions ==
    /\ retry_failed_transactions
    /\ UNCHANGED <<now, budget, call, queueVars, cacheVars, rateVars>>

----------------------------------------------------------------------------
(* pos.offline.queue *)

\* the item types the model enqueues ('order' and 'payment' of the five)
ItemTypes == {"order", "payment"}

\* The calls of enqueue_transaction(transaction, item_type) by env.user:
\* <<user, transaction id, item_type>>
QInputs ==
    { <<"u1", 1, "order">>,
      <<"u2", 2, "payment">> }

\* _compute_next_attempt_at, a stored computed field
compute_next_attempt_at(r) ==
    IF r.status \notin {"failed", "dead_letter"} \/ r.last_attempt_at = NoTime
    THEN NoTime
    ELSE r.last_attempt_at + Backoff(r.attempts)

QRecomputed(r) == [r EXCEPT !.next_attempt_at = compute_next_attempt_at(r)]

Range(s) == {s[j] : j \in 1..Len(s)}

\* the ids below serial `top`, in id order
Ids(top) == [i \in 1..(top - 1) |-> i]

\* the list s back to front
Reverse(s) == [k \in 1..Len(s) |-> s[Len(s) + 1 - k]]

\* order='sequence DESC'
BySequenceDesc(t, s) ==
    SortSeq(Reverse(s), LAMBDA a, b : t[a].sequence > t[b].sequence)

\* the rows newest first, whatever their sequence
NewestFirst(t, s) == Reverse(s)

\* order='sequence ASC'
BySequence(t, s) == SortSeq(s, LAMBDA a, b : t[a].sequence < t[b].sequence)

\* order='last_attempt_at ASC'
ByLastAttempt(t, s) ==
    SortSeq(s, LAMBDA a, b : t[a].last_attempt_at < t[b].last_attempt_at)

\* search([('user_id', '=', user)]) on table t
OfUser(t, top, user) ==
    SelectSeq(Ids(top), LAMBDA i : i \in DOMAIN t /\ t[i].user_id = user)

\* search([('user_id', '=', user), ('status', '=', status)]) on table t
OfUserInStatus(t, top, user, status) ==
    SelectSeq(Ids(top), LAMBDA i : /\ i \in DOMAIN t
                                   /\ t[i].user_id = user
                                   /\ t[i].status = status)

\* search_count([('user_id', '=', user), ('status', '=', status)])
search_count(user, status) ==
    Cardinality({i \in DOMAIN queue : /\ queue[i].user_id = user
                                      /\ queue[i].status = status})

\* (last_item.sequence or 0) + 1, last_item the first row of the user under
\* order='sequence DESC', limit=1
next_sequence(user) ==
    LET last_item == BySequenceDesc(queue, OfUser(queue, nextQId, user))
    IN  (IF Len(last_item) = 0 THEN 0 ELSE queue[last_item[1]].sequence) + 1

\* the row self.create({...}) inserts, with the field defaults
NewItem(user, t, item_type, sequence) ==
    [ user_id |-> user,
      sequence |-> sequence,
      transaction_id |-> t,
      item_type |-> item_type,
      item_data |-> txs[t].transaction_data,
      status |-> "queued",
      attempts |-> 0,
      last_attempt_at |-> NoTime,
      next_attempt_at |-> NoTime,
      error_message |-> "none",
      created_at |-> now,
      completed_at |-> NoTime,
      archived_at |-> NoTime ]

\* the table t after inserting row r under serial `top`
QInserted(t, top, r) ==
    [i \in DOMAIN t \cup {top} |-> IF i = top THEN r ELSE t[i]]

\* the slice s[keep:], which drops the lowest sequences instead
SliceDropFirst(s, keep) ==
    IF keep = 0 THEN <<>> ELSE SubSeq(s, keep + 1, Len(s))

\* the Python slice s[:-keep]
SliceDropLast(s, keep) ==
    IF keep = 0 THEN <<>> ELSE SubSeq(s, 1, Len(s) - keep)

\* _archive_old_queued_items(keep) on table t: the table afterwards
archive_old_queued_items(t, top, user, keep) ==
    LET all_queued == BySequence(t, OfUserInStatus(t, top, user, "queued"))
        to_archive == IF Len(all_queued) > keep
                      THEN Range(SliceDropLast(all_queued, keep))
                      ELSE {}
    IN  [i \in DOMAIN t |->
           IF i \in to_archive
           THEN [t[i] EXCEPT !.status = "archived", !.archived_at = now]
           ELSE t[i]]

\* what a call that touched the queue table did and returned
\* the dict process_queue_item returns
Result(success, status) == [success |-> success, status |-> status]

NoResult == Result(FALSE, "none")

QCall(op, user, id, sequence, size, high, order) ==
    [op |-> op, user |-> user, id |-> id, sequence |-> sequence,
     size |-> size, high |-> high, order |-> order, ret |-> NoResult]

\* a call on one record that returned `ret`
QCallRet(op, user, id, ret) ==
    [QCall(op, user, id, 0, 0, 0, <<>>) EXCEPT !.ret = ret]

NoQCall == QCall("none", "none", NoId, 0, 0, 0, <<>>)

\* the history of user u after one more enqueue_transaction call
Enqueued(h, u) == [h EXCEPT ![u] = [@ EXCEPT !.enq = @ + 1]]

\* the history after a call other than enqueue_transaction changed or
\* deleted the rows `ids` of table t
Touched(h, t, ids) ==
    [u \in DOMAIN h |->
        IF \E i \in ids : t[i].user_id = u THEN [h[u] EXCEPT !.other = TRUE]
        ELSE h[u]]

\* enqueue_transaction from the insert on: queue_size and sequence are what
\* the two reads of lines 136-147 returned
enqueue_after_read(user, t, item_type, queue_size, sequence) ==
    LET inserted == QInserted(queue, nextQId, NewItem(user, t, item_type, sequence))
    IN  /\ t \in DOMAIN txs
        /\ budget.enq > 0
        /\ budget' = [budget EXCEPT !.enq = @ - 1]
        /\ queue' = IF queue_size >= OverflowThreshold
                    THEN archive_old_queued_items(inserted, nextQId + 1, user,
                                                  KeepOnOverflow)
                    ELSE inserted
        /\ nextQId' = nextQId + 1
        /\ seqHigh' = [seqHigh EXCEPT ![user] = IF sequence > @ THEN sequence ELSE @]
        /\ qhist' = Enqueued(qhist, user)
        /\ lastQ' = QCall("enqueue_transaction", user, nextQId, sequence,
                          queue_size, seqHigh[user], <<>>)
        /\ UNCHANGED gone

\* enqueue_transaction as one uninterrupted call
enqueue_transaction(user, t, item_type) ==
    enqueue_after_read(user, t, item_type, search_count(user, "queued"),
                       next_sequence(user))

EnqueueTransaction ==
    /\ \E c \in QInputs : enqueue_transaction(c[1], c[2], c[3])
    /\ UNCHANGED <<now, txVars, call, cacheVars, rateVars>>

\* an early return that lets a dead_letter item through
EarlyReturnCompletedOnly(r) == r.status = "completed"

\* the two early returns of process_queue_item
EarlyReturn(r) == r.status = "completed" \/ r.status = "dead_letter"

\* a failure handler that never moves an item to the dead letter queue
FailedStatusNever(attempts) == "failed"

\* the status after a failed attempt that brought the counter to `attempts`
FailedStatus(attempts) ==
    IF attempts >= DeadLetterAttempts THEN "dead_letter" ELSE "failed"

\* process_queue_item on row r, _process_by_type raising or not
process_queue_item(r, raises) ==
    IF EarlyReturn(r) THEN r
    ELSE IF ~raises
    THEN QRecomputed([r EXCEPT !.status = "completed",
                               !.completed_at = now,
                               !.attempts = @ + 1])
    ELSE QRecomputed([r EXCEPT !.status = FailedStatus(r.attempts + 1),
                               !.attempts = @ + 1,
                               !.last_attempt_at = now,
                               !.error_message = "error"])

\* a result that ignores the status the item had
process_queue_item_result_blind(r, raises) ==
    IF ~raises THEN Result(TRUE, "completed") ELSE Result(FALSE, "failed")

\* what process_queue_item on row r returns
process_queue_item_result(r, raises) ==
    IF r.status = "completed" THEN Result(TRUE, "already_completed")
    ELSE IF r.status = "dead_letter" THEN Result(FALSE, "in_dead_letter_queue")
    ELSE IF ~raises THEN Result(TRUE, "completed")
    ELSE Result(FALSE, "failed")

\* the loop `for item in items: item.process_queue_item()`, the items of a
\* type in `bad` raising in this run
ProcessAll(items, bad) ==
    \E picked \in {Range(items)} :
        LET raising == \E i \in picked : queue[i].item_type \in bad
        IN  /\ raising => budget.fails > 0
            /\ budget' = [budget EXCEPT !.fails = IF raising THEN @ - 1 ELSE @]
            /\ queue' = [i \in DOMAIN queue |->
                           IF i \in picked
                           THEN process_queue_item(queue[i],
                                                   queue[i].item_type \in bad)
                           ELSE queue[i]]
            /\ qhist' = Touched(qhist, queue, picked)
            /\ UNCHANGED <<nextQId, seqHigh, gone>>

\* item.process_queue_item() called on the single record i
ProcessQueueItem ==
    /\ \E i \in DOMAIN queue, raises \in BOOLEAN :
          LET failing == raises /\ ~EarlyReturn(queue[i])
          IN  /\ failing => budget.fails > 0
              /\ budget' = [budget EXCEPT !.fails = IF failing THEN @ - 1 ELSE @]
              /\ queue' = [queue EXCEPT ![i] = process_queue_item(@, raises)]
              /\ qhist' = Touched(qhist, queue, {i})
              /\ lastQ' = QCallRet("process_queue_item", queue[i].user_id, i,
                                   process_queue_item_result(queue[i], raises))
    /\ UNCHANGED <<nextQId, seqHigh, gone>>
    /\ UNCHANGED <<now, txVars, call, cacheVars, rateVars>>

\* the values of `keep` the archiver is called with
ArchiveKeeps == {0, 1}

\* _archive_old_queued_items(keep) called for `user`
ArchiveOldQueuedItems ==
    /\ \E user \in Users, keep \in ArchiveKeeps :
          \E after \in {archive_old_queued_items(queue, nextQId, user, keep)} :
              /\ queue' = after
              /\ qhist' = Touched(qhist, queue,
                                  {i \in DOMAIN queue : after[i] # queue[i]})
              /\ lastQ' = QCall("_archive_old_queued_items", user, NoId, 0, 0,
                                keep, <<>>)
    /\ UNCHANGED <<nextQId, seqHigh, gone, budget>>
    /\ UNCHANGED <<now, txVars, call, cacheVars, rateVars>>

process_pending_queue(user, bad) ==
    LET pending_items ==
            BySequence(queue, OfUserInStatus(queue, nextQId, user, "queued"))
    IN  /\ ProcessAll(pending_items, bad)
        /\ lastQ' = QCall("process_pending_queue", user, NoId, 0, 0, 0,
                          pending_items)

ProcessPendingQueue ==
    /\ \E user \in Users, bad \in SUBSET ItemTypes : process_pending_queue(user, bad)
    /\ UNCHANGED <<now, txVars, call, cacheVars, rateVars>>

retry_failed_items(user, bad) ==
    LET failed_items ==
            ByLastAttempt(queue,
                SelectSeq(OfUserInStatus(queue, nextQId, user, "failed"),
                          LAMBDA i : queue[i].attempts < DeadLetterAttempts))
    IN  /\ ProcessAll(failed_items, bad)
        /\ lastQ' = QCall("retry_failed_items", user, NoId, 0, 0, 0, failed_items)

RetryFailedItems ==
    /\ \E user \in Users, bad \in SUBSET ItemTypes : retry_failed_items(user, bad)
    /\ UNCHANGED <<now, txVars, call, cacheVars, rateVars>>

\* process_queue_item up to line 188: the item is marked processing
MarkedProcessing(r) == QRecomputed([r EXCEPT !.status = "processing"])

\* An attempt that is abandoned inside _process_by_type (the worker is
\* stopped, or an exception outside `except Exception` leaves the method)
\* runs neither the success nor the failure branch.  What is stored
\* afterwards depends on the surrounding database transaction: it is rolled
\* back and the item is as before, or the write of line 188 has been
\* committed and the item stays processing.
AbandonOutcomes == {"rolled_back", "persisted"}

\* the search of the scheduler run `op` for `user`
RunItems(op, user) ==
    IF op = "process_pending_queue"
    THEN BySequence(queue, OfUserInStatus(queue, nextQId, user, "queued"))
    ELSE ByLastAttempt(queue,
             SelectSeq(OfUserInStatus(queue, nextQId, user, "failed"),
                       LAMBDA i : queue[i].attempts < DeadLetterAttempts))

\* a run of process_pending_queue or retry_failed_items whose attempt on the
\* first item is abandoned
abandoned_run(op, user, outcome) ==
    LET items == RunItems(op, user)
    IN  /\ items # <<>>
        /\ queue' = IF outcome = "persisted"
                    THEN [queue EXCEPT ![items[1]] = MarkedProcessing(@)]
                    ELSE queue
        /\ qhist' = IF outcome = "persisted"
                    THEN Touched(qhist, queue, {items[1]}) ELSE qhist
        /\ lastQ' = [QCall(op, user, items[1], 0, 0, 0, items)
                     EXCEPT !.ret = Result(FALSE, "abandoned")]
        /\ UNCHANGED <<nextQId, seqHigh, gone>>

AbandonedRun ==
    /\ \E op \in {"process_pending_queue", "retry_failed_items"},
          user \in Users, outcome \in AbandonOutcomes :
          abandoned_run(op, user, outcome)
    /\ UNCHANGED <<now, budget, txVars, call, cacheVars, rateVars>>

\* the rows `ids` of the queue table, as deleted by `by`
Deleted(ids, by) == {[id |-> i, by |-> by, status |-> queue[i].status] : i \in ids}

\* the search of cleanup_completed_queue_items(days)
OldCompleted(days) ==
    {i \in DOMAIN queue : /\ queue[i].status = "completed"
                          /\ queue[i].completed_at < now - days * SecondsPerDay}

cleanup_completed_queue_items(days) ==
    LET old_items == OldCompleted(days)
    IN  /\ queue' = [i \in DOMAIN queue \ old_items |-> queue[i]]
        /\ gone' = gone \cup Deleted(old_items, "cleanup_completed_queue_items")
        /\ qhist' = Touched(qhist, queue, old_items)
        /\ lastQ' = QCall("cleanup_completed_queue_items", "cron", NoId, 0, 0, 0, <<>>)
        /\ UNCHANGED <<nextQId, seqHigh>>

CleanupCompletedQueueItems ==
    /\ cleanup_completed_queue_items(QueueRetentionDays)
    /\ UNCHANGED <<now, budget, txVars, call, cacheVars, rateVars>>

\* transaction_id = fields.Many2one(..., ondelete='cascade'): the queue rows
\* of the deleted transactions go with them
CascadeDelete(deleted) ==
    LET rows == {i \in DOMAIN queue : queue[i].transaction_id \in deleted}
    IN  IF rows = {} THEN UNCHANGED queueVars
        ELSE /\ queue' = [i \in DOMAIN queue \ rows |-> queue[i]]
             /\ gone' = gone \cup Deleted(rows, "cleanup_old_transactions")
             /\ qhist' = Touched(qhist, queue, rows)
             /\ lastQ' = QCall("cleanup_old_transactions", "cron", NoId, 0, 0, 0, <<>>)
             /\ UNCHANGED <<nextQId, seqHigh>>

\* get_queue_stats for env.user
get_queue_stats(user) ==
    [ total |-> Cardinality({i \in DOMAIN queue : queue[i].user_id = user}),
      queued |-> search_count(user, "queued"),
      processing |-> search_count(user, "processing"),
      completed |-> search_count(user, "completed"),
      failed |-> search_count(user, "failed"),
      dead_letter |-> search_count(user, "dead_letter"),
      queue_overflow |-> search_count(user, "queued") > OverflowThreshold ]

\* a purge that takes the transactions synced exactly at the cutoff too
OldSyncedInclusive(days) ==
    {i \in DOMAIN txs : /\ txs[i].sync_status = "synced"
                        /\ txs[i].synced_at <= now - days * SecondsPerDay}

\* the search of cleanup_old_transactions(days)
OldSynced(days) ==
    {i \in DOMAIN txs : /\ txs[i].sync_status = "synced"
                        /\ txs[i].synced_at < now - days * SecondsPerDay}

cleanup_old_transactions(days) ==
    /\ txs' = [i \in DOMAIN txs \ OldSynced(days) |-> txs[i]]
    /\ CascadeDelete(OldSynced(days))
    /\ lastTx' = TxCall("cleanup_old_transactions", NoId, NoKey, "cron", FALSE,
                        "done", {})
    /\ UNCHANGED <<nextTxId, remoteOk, remoteTried>>

CleanupOldTransactions ==
    /\ cleanup_old_transactions(TxRetentionDays)
    /\ UNCHANGED <<now, budget, call, cacheVars, rateVars>>

----------------------------------------------------------------------------
(* models/pos_offline_model_cache.py *)

Models == {"product.product", "res.partner"}
RecordIds == {0, 1}
Payloads == {"p1", "p2"}
None == "None"                \* the return value None
NoRecord == 0 - 1             \* the argument record_id=None

\* <<user, model_name, record_id, record_data>>
CacheInputs ==
    { <<"u1", "product.product", 1, "p1">>,
      <<"u1", "product.product", 1, "p2">>,
      <<"u1", "product.product", 0, "p1">>,
      <<"u1", "res.partner", 1, "p1">>,
      <<"u2", "product.product", 1, "p2">> }

\* <<user, model_name, record_id>>
CacheKeys == {<<c[1], c[2], c[3]>> : c \in CacheInputs}

\* hashlib.sha256(json.dumps(record_data, sort_keys=True).encode()).hexdigest()
compute_data_hash(record_data) == <<"sha256", record_data>>

\* _compute_expires_at
compute_expires_at(r) == r.created_at + CacheTtl

\* _compute_is_valid, evaluated at time t
compute_is_valid(r, t) == r.expires_at # NoTime /\ r.expires_at > t

\* the row as it is, its stored computed fields left alone
CacheNotRecomputed(r, t) == r

\* the stored computed fields after created_at was written at time t:
\* expires_at depends on created_at, is_valid on expires_at
CacheRecomputed(r, t) ==
    LET e == [r EXCEPT !.expires_at = compute_expires_at(r)]
    IN  [e EXCEPT !.is_valid = compute_is_valid(e, t)]

\* the search without its user_id condition
CacheSearchAnyUser(user, model_name, record_id) ==
    {i \in DOMAIN cache : /\ cache[i].model_name = model_name
                          /\ cache[i].record_id = record_id}

\* search([('user_id', '=', user), ('model_name', '=', model_name),
\*         ('record_id', '=', record_id)])
CacheSearch(user, model_name, record_id) ==
    {i \in DOMAIN cache : /\ cache[i].user_id = user
                          /\ cache[i].model_name = model_name
                          /\ cache[i].record_id = record_id}

\* the search of get_cached_record: the stored is_valid column is compared
CacheSearchValid(user, model_name, record_id) ==
    {i \in CacheSearch(user, model_name, record_id) : cache[i].is_valid}

\* limit=1 under _order = 'created_at DESC': a row of the latest created_at
First(ids) ==
    {i \in ids : \A j \in ids : cache[j].created_at <= cache[i].created_at}

\* the row self.create({...}) inserts at time t, with the field defaults
NewEntry(user, model_name, record_id, record_data, t) ==
    CacheRecomputed(
        [ user_id |-> user,
          model_name |-> model_name,
          record_id |-> record_id,
          record_data |-> record_data,
          data_hash |-> compute_data_hash(record_data),
          cache_version |-> 1,
          created_at |-> t,
          expires_at |-> NoTime,
          is_valid |-> FALSE,
          accessed_count |-> 0,
          last_accessed_at |-> NoTime,
          validation_attempts |-> 0,
          last_validated_at |-> NoTime,
          lock_acquired_at |-> NoTime,
          lock_user_id |-> "none" ], t)

\* what a call on the cache model did and returned
CacheCall(op, user, model_name, record_id, id, ret, count, raised) ==
    [op |-> op, user |-> user, model_name |-> model_name,
     record_id |-> record_id, id |-> id, ret |-> ret, count |-> count,
     raised |-> raised, hash |-> <<>>, valid |-> FALSE]

NoCacheCall == CacheCall("none", "none", "none", NoRecord, NoId, None, 0, "none")

\* every call on the cache model but the cron sweep is counted
CacheCounted ==
    /\ budget.calls > 0
    /\ budget' = [budget EXCEPT !.calls = @ - 1]

\* cache_record from the branch on: `existing` is what self.search returned
cache_after_search(user, model_name, record_id, record_data, existing) ==
        /\ CacheCounted
        /\ IF existing # {}
           THEN \E i \in existing :
                   /\ cache' = [cache EXCEPT ![i] =
                         CacheRecomputed(
                            [@ EXCEPT !.record_data = record_data,
                                      !.data_hash = compute_data_hash(record_data),
                                      !.cache_version = @ + 1,
                                      !.created_at = now], now)]
                   /\ nextCacheId' = nextCacheId
                   /\ stale' = stale \ {i}
                   /\ lastCache' = CacheCall("cache_record", user, model_name,
                                             record_id, i, record_data, 0, "none")
           ELSE /\ cache' = [i \in DOMAIN cache \cup {nextCacheId} |->
                               IF i = nextCacheId
                               THEN NewEntry(user, model_name, record_id,
                                             record_data, now)
                               ELSE cache[i]]
                /\ nextCacheId' = nextCacheId + 1
                /\ stale' = stale
                /\ lastCache' = CacheCall("cache_record", user, model_name,
                                          record_id, nextCacheId, record_data, 0,
                                          "none")

\* cache_record as one uninterrupted call
cache_record(user, model_name, record_id, record_data) ==
    cache_after_search(user, model_name, record_id, record_data,
                       First(CacheSearch(user, model_name, record_id)))

CacheRecord ==
    /\ \E c \in CacheInputs : cache_record(c[1], c[2], c[3], c[4])
    /\ UNCHANGED <<now, txVars, call, queueVars, rateVars, rowLocks, blocked>>

get_cached_record(user, model_name, record_id) ==
    LET query == First(CacheSearchValid(user, model_name, record_id))
    IN  /\ CacheCounted
        /\ IF query = {}
           THEN /\ lastCache' = CacheCall("get_cached_record", user, model_name,
                                          record_id, NoId, None, 0, "none")
                /\ UNCHANGED <<cache, nextCacheId, stale>>
           ELSE \E i \in query :
                   /\ cache' = [cache EXCEPT ![i] =
                                   [@ EXCEPT !.accessed_count = @ + 1,
                                             !.last_accessed_at = now]]
                   /\ lastCache' = CacheCall("get_cached_record", user, model_name,
                                             record_id, i, cache[i].record_data,
                                             0, "none")
                   /\ UNCHANGED <<nextCacheId, stale>>

GetCachedRecord ==
    /\ \E k \in CacheKeys : get_cached_record(k[1], k[2], k[3])
    /\ UNCHANGED <<now, txVars, call, queueVars, rateVars, rowLocks, blocked>>

\* no call is waiting for a row lock
NotBlocked == <<>>

\* the access tracking and the return of get_cached_record for entry i
ReturnRecord(user, model_name, record_id, i) ==
    /\ cache' = [cache EXCEPT ![i] = [@ EXCEPT !.accessed_count = @ + 1,
                                               !.last_accessed_at = now]]
    /\ lastCache' = CacheCall("get_cached_record", user, model_name, record_id,
                              i, cache[i].record_data, 0, "none")

\* get_cached_record(model_name, record_id, use_lock=True): the statement
\* SELECT ... FOR UPDATE waits while another transaction holds the row lock
get_cached_record_locked(user, model_name, record_id) ==
    LET query == First(CacheSearchValid(user, model_name, record_id))
    IN  /\ CacheCounted
        /\ blocked = NotBlocked
        /\ IF query = {}
           THEN /\ lastCache' = CacheCall("get_cached_record", user, model_name,
                                          record_id, NoId, None, 0, "none")
                /\ UNCHANGED <<cache, blocked>>
           ELSE \E i \in query :
                   IF i \in rowLocks
                   THEN /\ blocked' = <<user, model_name, record_id, i>>
                        /\ UNCHANGED <<cache, lastCache>>
                   ELSE /\ ReturnRecord(user, model_name, record_id, i)
                        /\ UNCHANGED blocked
        /\ UNCHANGED <<nextCacheId, stale, rowLocks>>

GetCachedRecordLocked ==
    /\ \E k \in CacheKeys : get_cached_record_locked(k[1], k[2], k[3])
    /\ UNCHANGED <<now, txVars, call, queueVars, rateVars>>

\* the waiting statement returns once the lock is free, and the call goes
\* on to its access tracking and returns the payload
LockGranted ==
    /\ blocked # NotBlocked
    /\ blocked[4] \notin rowLocks
    /\ blocked[4] \in DOMAIN cache
    /\ ReturnRecord(blocked[1], blocked[2], blocked[3], blocked[4])
    /\ blocked' = NotBlocked
    /\ UNCHANGED <<nextCacheId, stale, rowLocks>>
    /\ UNCHANGED <<now, budget, txVars, call, queueVars, rateVars>>

\* the database gives up the wait (lock_timeout, deadlock detection) and
\* the statement raises; get_cached_record has no handler around it
LockWaitFails ==
    /\ blocked # NotBlocked
    /\ blocked[4] \in rowLocks
    /\ lastCache' = CacheCall("get_cached_record", blocked[1], blocked[2],
                              blocked[3], blocked[4], None, 0, "OperationalError")
    /\ blocked' = NotBlocked
    /\ UNCHANGED <<cache, nextCacheId, stale, rowLocks>>
    /\ UNCHANGED <<now, budget, txVars, call, queueVars, rateVars>>

\* acquire_lock on entry i in a transaction of `user`: FOR UPDATE NOWAIT
\* raises when the lock is taken, and the handler returns False
acquire_lock(user, i) ==
    IF i \in rowLocks
    THEN /\ lastCache' = CacheCall("acquire_lock", user, cache[i].model_name,
                                   cache[i].record_id, i, "False", 0, "none")
         /\ UNCHANGED <<cache, rowLocks>>
    ELSE /\ cache' = [cache EXCEPT ![i] = [@ EXCEPT !.lock_acquired_at = now,
                                                    !.lock_user_id = user]]
         /\ rowLocks' = rowLocks \cup {i}
         /\ lastCache' = CacheCall("acquire_lock", user, cache[i].model_name,
                                   cache[i].record_id, i, "True", 0, "none")

AcquireLock ==
    /\ CacheCounted
    /\ \E user \in Users, i \in DOMAIN cache : acquire_lock(user, i)
    /\ UNCHANGED <<nextCacheId, stale, blocked>>
    /\ UNCHANGED <<now, txVars, call, queueVars, rateVars>>

\* the transaction that holds the lock of row i ends
EndTransaction ==
    /\ \E i \in rowLocks : rowLocks' = rowLocks \ {i}
    /\ UNCHANGED <<cache, nextCacheId, stale, lastCache, blocked>>
    /\ UNCHANGED <<now, budget, txVars, call, queueVars, rateVars>>

\* current_data_hash left out (None)
NoHash == <<>>

\* the hashes validate_cache is called with
Hashes == {NoHash} \cup {compute_data_hash(d) : d \in Payloads}

\* the reason validate_cache returns for the rows `found`
validate_reason(found, current_data_hash) ==
    IF found = {} THEN "no_cache"
    ELSE IF \E i \in found : ~cache[i].is_valid THEN "expired"
    ELSE IF current_data_hash # NoHash
            /\ \E i \in found : cache[i].data_hash # current_data_hash
    THEN "data_changed"
    ELSE "cache_fresh"

\* validate_cache: the row found is stamped before anything is decided
validate_cache(user, model_name, record_id, current_data_hash) ==
    LET cache_entry == First(CacheSearch(user, model_name, record_id))
    IN  /\ CacheCounted
        /\ \E found \in IF cache_entry = {} THEN {{}}
                          ELSE {{i} : i \in cache_entry} :
              LET reason == validate_reason(found, current_data_hash)
              IN  /\ cache' = [i \in DOMAIN cache |->
                                 IF i \in found
                                 THEN [cache[i] EXCEPT
                                          !.validation_attempts = @ + 1,
                                          !.last_validated_at = now]
                                 ELSE cache[i]]
                  /\ lastCache' =
                        [CacheCall("validate_cache", user, model_name, record_id,
                                   IF found = {} THEN NoId
                                   ELSE CHOOSE i \in found : TRUE,
                                   reason, 0, "none")
                           EXCEPT !.hash = current_data_hash,
                                  !.valid = (reason = "cache_fresh")]
        /\ UNCHANGED <<nextCacheId, stale>>

ValidateCache ==
    /\ \E k \in CacheKeys, h \in Hashes : validate_cache(k[1], k[2], k[3], h)
    /\ UNCHANGED <<now, txVars, call, queueVars, rateVars, rowLocks, blocked>>

\* an invalidation that deletes the rows of `ids`
InvalidatedDeleted(ids) == [i \in DOMAIN cache \ ids |-> cache[i]]

\* invalidate_cache on each row of `ids`
Invalidated(ids) ==
    [i \in DOMAIN cache |->
        IF i \in ids THEN [cache[i] EXCEPT !.is_valid = FALSE] ELSE cache[i]]

\* record_id is None when the argument is left out; `if record_id:` takes
\* the record id 0 for a missing one as well
invalidate_model_cache(user, model_name, record_id) ==
    LET entries ==
            IF record_id # NoRecord /\ record_id # 0
            THEN CacheSearch(user, model_name, record_id)
            ELSE {i \in DOMAIN cache : /\ cache[i].user_id = user
                                       /\ cache[i].model_name = model_name}
    IN  /\ CacheCounted
        /\ cache' = Invalidated(entries)
        /\ stale' = stale \cup entries
        /\ lastCache' = CacheCall("invalidate_model_cache", user, model_name,
                                  record_id, NoId, None, Cardinality(entries),
                                  "none")
        /\ UNCHANGED nextCacheId

InvalidateModelCache ==
    /\ \E user \in Users, model_name \in Models, record_id \in RecordIds \cup {NoRecord} :
          invalidate_model_cache(user, model_name, record_id)
    /\ UNCHANGED <<now, txVars, call, queueVars, rateVars, rowLocks, blocked>>

\* entries.invalidate_cache() starts with self.ensure_one(), which raises
\* unless the recordset holds exactly one row
invalidate_all_cache_on_reconnect(user) ==
    LET entries == {i \in DOMAIN cache : cache[i].user_id = user}
    IN  /\ CacheCounted
        /\ IF Cardinality(entries) = 1
           THEN /\ cache' = Invalidated(entries)
                /\ stale' = stale \cup entries
                /\ lastCache' = CacheCall("invalidate_all_cache_on_reconnect", user,
                                          "none", NoRecord, NoId, None,
                                          Cardinality(entries), "none")
           ELSE /\ lastCache' = CacheCall("invalidate_all_cache_on_reconnect", user,
                                          "none", NoRecord, NoId, None,
                                          Cardinality(entries), "ValueError")
                /\ UNCHANGED <<cache, stale>>
        /\ UNCHANGED nextCacheId

InvalidateAllCacheOnReconnect ==
    /\ \E user \in Users : invalidate_all_cache_on_reconnect(user)
    /\ UNCHANGED <<now, txVars, call, queueVars, rateVars, rowLocks, blocked>>

cleanup_expired_cache ==
    LET expired == {i \in DOMAIN cache : cache[i].expires_at < now}
    IN  /\ cache' = [i \in DOMAIN cache \ expired |-> cache[i]]
        /\ stale' = stale \ expired
        /\ lastCache' = CacheCall("cleanup_expired_cache", "cron", "none", NoRecord,
                                  NoId, None, Cardinality(expired), "none")
        /\ UNCHANGED nextCacheId

CleanupExpiredCache ==
    /\ cleanup_expired_cache
    /\ UNCHANGED <<now, budget, txVars, call, queueVars, rateVars, rowLocks, blocked>>

----------------------------------------------------------------------------
(* controllers/main.py: the rate limiter of password validation *)

Threads == 1..MaxThreads
NoThread == 0

\* a thread that is not inside _check_password_rate_limit
NotCalling == [pc |-> "idle", user |-> "none", t0 |-> NoTime, ret |-> FALSE]

\* the state of the module after import
InitRate ==
    /\ password_attempts = [u \in Users |-> <<>>]
    /\ password_rate_limit_lock = NoThread
    /\ thread = [t \in Threads |-> NotCalling]
    /\ admitted = [u \in Users |-> <<>>]

\* `with _password_rate_limit_lock:` can be entered
LockFree == password_rate_limit_lock = NoThread

\* thread t calls _check_password_rate_limit(user, ip): it enters
\* `with _password_rate_limit_lock:`, which waits while the lock is held,
\* and reads time.time().  The threads are started one after the other.
CallCheckPasswordRateLimit(t) ==
    /\ thread[t].pc = "idle"
    /\ \A j \in 1..(t - 1) : thread[j].pc # "idle"
    /\ LockFree
    /\ password_rate_limit_lock' = t
    /\ \E user \in Users :
          thread' = [thread EXCEPT ![t] = [@ EXCEPT !.pc = "locked",
                                                    !.user = user,
                                                    !.t0 = now]]
    /\ UNCHANGED <<password_attempts, admitted>>

\* the attempts of the window: ts > window_start
InWindow(attempts, window_start) ==
    SelectSeq(attempts, LAMBDA a : a[1] > window_start)

\* "Remove expired attempts"
PruneAttempts(t) ==
    /\ thread[t].pc = "locked"
    /\ password_attempts' =
          [password_attempts EXCEPT ![thread[t].user] =
              InWindow(@, thread[t].t0 - PASSWORD_WINDOW_SECONDS)]
    /\ thread' = [thread EXCEPT ![t] = [@ EXCEPT !.pc = "pruned"]]
    /\ UNCHANGED <<password_rate_limit_lock, admitted>>

\* a limit that lets one attempt too many through
LimitExceededLate(attempts) == Len(attempts) > MAX_PASSWORD_ATTEMPTS

\* len(_password_attempts[user_id]) >= MAX_PASSWORD_ATTEMPTS
LimitExceeded(attempts) == Len(attempts) >= MAX_PASSWORD_ATTEMPTS

\* "Check if limit exceeded", "Add current attempt"; the lock is released
\* on the way out
DecideAttempt(t) ==
    /\ thread[t].pc = "pruned"
    /\ LET user == thread[t].user
           allowed == ~LimitExceeded(password_attempts[user])
       IN  /\ password_attempts' =
                 IF allowed
                 THEN [password_attempts EXCEPT ![user] =
                          Append(@, <<thread[t].t0, "ip">>)]
                 ELSE password_attempts
           /\ admitted' = IF allowed
                          THEN [admitted EXCEPT ![user] = Append(@, thread[t].t0)]
                          ELSE admitted
           /\ thread' = [thread EXCEPT ![t] = [@ EXCEPT !.pc = "returned",
                                                        !.t0 = NoTime,
                                                        !.ret = allowed]]
    /\ password_rate_limit_lock' = NoThread

RateFrame == UNCHANGED <<now, budget, txVars, call, queueVars, cacheVars>>

CheckPasswordRateLimit ==
    /\ \E t \in Threads :
          \/ CallCheckPasswordRateLimit(t)
          \/ PruneAttempts(t)
          \/ DecideAttempt(t)
    /\ RateFrame

----------------------------------------------------------------------------

InitCache ==
    /\ cache = <<>>
    /\ nextCacheId = 1
    /\ stale = {}
    /\ lastCache = NoCacheCall
    /\ rowLocks = {}
    /\ blocked = NotBlocked
    /\ InitRate

----------------------------------------------------------------------------
(* The clock *)

TxTickSteps == {BackoffBase, TxRetentionDays * SecondsPerDay + 1}

Tick(d) ==
    /\ budget.ticks > 0
    /\ now' = now + d
    /\ budget' = [budget EXCEPT !.ticks = @ - 1]

TickTx ==
    /\ \E d \in TxTickSteps : Tick(d)
    /\ UNCHANGED <<txVars, call, queueVars, cacheVars, rateVars>>

----------------------------------------------------------------------------
(* The transaction store under sequential calls *)

NoCall == TxCall("none", NoId, NoKey, "none", FALSE, "none", {})

InitTx ==
    /\ txs = <<>>
    /\ nextTxId = 1
    /\ remoteOk = <<>>
    /\ remoteTried = <<>>
    /\ lastTx = NoCall

Idle == [pc |-> "idle", args |-> <<>>, key |-> NoKey, existing |-> {},
         ret |-> NoCall]

\* the queue after `backlog` enqueue_transaction(transaction 1, 'order')
\* calls of user u1 on the empty table
InitQueue(backlog) ==
    /\ queue = [i \in 1..backlog |-> NewItem("u1", 1, "order", i)]
    /\ nextQId = backlog + 1
    /\ seqHigh = [u \in Users |-> IF u = "u1" THEN backlog ELSE 0]
    /\ qhist = [u \in Users |-> [enq |-> IF u = "u1" THEN backlog ELSE 0,
                                 other |-> FALSE]]
    /\ gone = {}
    /\ lastQ = NoQCall

Budget(ticks, enq, fails, calls, syncs) ==
    [ticks |-> ticks, enq |-> enq, fails |-> fails, calls |-> calls,
     syncs |-> syncs]

Init ==
    /\ now = 0
    /\ budget = Budget(MaxTicks, 0, 0, 0, MaxSyncCalls)
    /\ InitTx
    /\ call = [w \in Workers |-> Idle]
    /\ InitQueue(0)
    /\ InitCache

Next ==
    \/ CreateTransaction
    \/ SyncTransaction
    \/ RetryFailedTransactions
    \/ CleanupOldTransactions
    \/ TickTx

Spec == Init /\ [][Next]_vars

----------------------------------------------------------------------------
(* The queue.  The transaction table holds two rows of user u1, as left by *)
(* create_transaction('order', p1, 1), create_transaction('payment', p2,   *)
(* 2) and a successful sync_transaction of the second; the queue starts    *)
(* empty or with a backlog one short of the overflow threshold.            *)

QueuedTxs ==
    LET t1 == NewTx("u1", "order", "p1", 1, generate_idempotency_key(1, "p1", now))
        t2 == NewTx("u2", "payment", "p2", 2, generate_idempotency_key(2, "p2", now))
    IN  <<t1, SyncRow(t2, "ok")>>

\* the state after those calls and `backlog` enqueue_transaction calls,
\* with `b` left of the bounds
InitQueued(backlog, b) ==
    /\ now = 0
    /\ budget = b
    /\ txs = QueuedTxs
    /\ nextTxId = Len(QueuedTxs) + 1
    /\ remoteOk = <<0, 1>>
    /\ remoteTried = <<0, 1>>
    /\ lastTx = NoCall
    /\ call = [w \in Workers |-> Idle]
    /\ InitQueue(backlog)
    /\ InitCache

InitQ == InitQueued(0, Budget(MaxQTicks, MaxEnqueue, MaxFailRuns, 0, 0))

QTickSteps == {QueueRetentionDays * SecondsPerDay + 1,
               TxRetentionDays * SecondsPerDay + 1}

TickQueue ==
    /\ \E d \in QTickSteps : Tick(d)
    /\ UNCHANGED <<txVars, call, queueVars, cacheVars, rateVars>>

NextQ ==
    \/ EnqueueTransaction
    \/ ProcessPendingQueue
    \/ RetryFailedItems
    \/ CleanupCompletedQueueItems
    \/ CleanupOldTransactions
    \/ TickQueue

SpecQ == InitQ /\ [][NextQ]_vars

\* The queue under pressure: user u1 starts one item short of the overflow
\* threshold.
InitOverflow ==
    InitQueued(OverflowThreshold - 1, Budget(MaxOverflowTicks, MaxEnqueue, 0, 0, 0))

NextOverflow ==
    \/ EnqueueTransaction
    \/ ProcessPendingQueue
    \/ TickQueue

SpecOverflow == InitOverflow /\ [][NextOverflow]_vars

----------------------------------------------------------------------------
(* create_transaction under concurrent calls: a worker runs the duplicate  *)
(* check, other workers may run, then it runs the rest of the handler.     *)

\* lines 181-187: the key and the duplicate check
BeginCreate(w) ==
    /\ call[w].pc = "idle"
    /\ \E c \in TxInputs :
         LET key == generate_idempotency_key(c[4], c[3], now)
         IN  call' = [call EXCEPT ![w] =
                        [pc |-> "checked", args |-> c, key |-> key,
                         existing |-> SearchKey(key), ret |-> NoCall]]
    /\ UNCHANGED <<now, budget, txVars, queueVars, cacheVars, rateVars>>

\* lines 189-207: the duplicate branch or the insert
FinishCreate(w) ==
    /\ call[w].pc = "checked"
    /\ LET c == call[w].args
       IN  create_after_check(c[1], c[2], c[3], c[4], call[w].key,
                              call[w].existing)
    /\ call' = [call EXCEPT ![w] = [@ EXCEPT !.pc = "idle", !.ret = lastTx']]
    /\ UNCHANGED <<now, budget, queueVars, cacheVars, rateVars>>

RaceBegin == \E w \in Workers : BeginCreate(w)
RaceFinish == \E w \in Workers : FinishCreate(w)

NextRace ==
    \/ RaceBegin
    \/ RaceFinish
    \/ TickTx

SpecRace == Init /\ [][NextRace]_vars

----------------------------------------------------------------------------
(* The cache, starting empty *)

InitC ==
    /\ now = 0
    /\ budget = Budget(MaxCacheTicks, 0, 0, MaxCacheCalls, 0)
    /\ InitTx
    /\ call = [w \in Workers |-> Idle]
    /\ InitQueue(0)
    /\ InitCache

CacheTickSteps == {1, CacheTtl - 1}

TickCache ==
    /\ \E d \in CacheTickSteps : Tick(d)
    /\ UNCHANGED <<txVars, call, queueVars, cacheVars, rateVars>>

NextCache ==
    \/ CacheRecord
    \/ GetCachedRecord
    \/ InvalidateModelCache
    \/ InvalidateAllCacheOnReconnect
    \/ CleanupExpiredCache
    \/ TickCache

SpecCache == InitC /\ [][NextCache]_vars

----------------------------------------------------------------------------
(* The backoff of both models as a function of the attempt count: a row is *)
(* written as the test suites write it (status failed, an attempt count,   *)
(* the time of the last attempt), which recomputes the stored field.       *)

InitBackoff == InitQueued(1, Budget(MaxBackoffTicks, 0, 0, 0, 0))

\* transaction.sync_status = 'failed'; transaction.sync_attempts = n;
\* transaction.last_sync_attempt = now
WriteSyncAttempts ==
    /\ \E i \in DOMAIN txs, n \in 1..MaxBackoffAttempts :
          txs' = [txs EXCEPT ![i] =
                     Recomputed([@ EXCEPT !.sync_status = "failed",
                                          !.sync_attempts = n,
                                          !.last_sync_attempt = now])]
    /\ UNCHANGED <<now, budget, nextTxId, remoteOk, remoteTried, lastTx, call,
                   queueVars, cacheVars, rateVars>>

\* queue_item.status = 'failed'; queue_item.attempts = n;
\* queue_item.last_attempt_at = now
WriteItemAttempts ==
    /\ \E i \in DOMAIN queue, n \in 1..MaxBackoffAttempts :
          queue' = [queue EXCEPT ![i] =
                       QRecomputed([@ EXCEPT !.status = "failed",
                                             !.attempts = n,
                                             !.last_attempt_at = now])]
    /\ UNCHANGED <<now, budget, txVars, call, nextQId, seqHigh, qhist, gone,
                   lastQ, cacheVars, rateVars>>

BackoffTickSteps == {1, BackoffCap}

TickBackoff ==
    /\ \E d \in BackoffTickSteps : Tick(d)
    /\ UNCHANGED <<txVars, call, queueVars, cacheVars, rateVars>>

NextBackoff ==
    \/ WriteSyncAttempts
    \/ WriteItemAttempts
    \/ TickBackoff

SpecBackoff == InitBackoff /\ [][NextBackoff]_vars

----------------------------------------------------------------------------
(* One transaction, created pending, synced by callers and by the          *)
(* scheduler as often as the retry limit needs.                            *)

InitRetry ==
    /\ now = 0
    /\ budget = Budget(MaxRetryTicks, 0, 0, 0, MaxRetrySyncs)
    /\ txs = <<NewTx("u1", "order", "p1", 1, generate_idempotency_key(1, "p1", now))>>
    /\ nextTxId = 2
    /\ remoteOk = <<0>>
    /\ remoteTried = <<0>>
    /\ lastTx = NoCall
    /\ call = [w \in Workers |-> Idle]
    /\ InitQueue(0)
    /\ InitCache

RetryTickSteps == {BackoffBase, BackoffCap}

TickRetry ==
    /\ \E d \in RetryTickSteps : Tick(d)
    /\ UNCHANGED <<txVars, call, queueVars, cacheVars, rateVars>>

NextRetry ==
    \/ SyncTransaction
    \/ RetryFailedTransactions
    \/ TickRetry

SpecRetry == InitRetry /\ [][NextRetry]_vars

----------------------------------------------------------------------------
(* The scheduler alone: transactions are created, nobody but               *)
(* retry_failed_transactions syncs them.  The table starts with one        *)
(* transaction whose first attempt failed.  The cron job runs again and    *)
(* again, and the remote confirms again and again.                         *)

InitScheduler ==
    /\ now = 0
    /\ budget = Budget(MaxRetryTicks, 0, 0, 0, MaxRetrySyncs)
    /\ txs = <<FailedRow(NewTx("u1", "payment", "p2", 2,
                               generate_idempotency_key(2, "p2", now)))>>
    /\ nextTxId = 2
    /\ remoteOk = <<0>>
    /\ remoteTried = <<1>>
    /\ lastTx = NoCall
    /\ call = [w \in Workers |-> Idle]
    /\ InitQueue(0)
    /\ InitCache

\* a scheduler run in which the remote confirms every attempt
RetryConfirmed ==
    /\ RetryFailedTransactions
    /\ lastTx'.status = "done"
    /\ \A i \in RetrySearch :
           /\ txs'[i].sync_status = "synced"
           /\ txs'[i].sync_response = json_dumps("ok")

NextScheduler ==
    \/ CreateTransaction
    \/ RetryFailedTransactions
    \/ TickRetry

SpecScheduler ==
    /\ InitScheduler
    /\ [][NextScheduler]_vars
    /\ WF_vars(TickRetry)
    /\ WF_vars(RetryFailedTransactions)
    /\ SF_vars(RetryConfirmed)

----------------------------------------------------------------------------
(* The dead letter queue: two queued items of one user, processed by the   *)
(* batch methods and one at a time, failing often enough to be given up.   *)

InitDeadLetter ==
    InitQueued(2, Budget(MaxDeadLetterTicks, 0, MaxDeadLetterFails, 0, 0))

DeadLetterTickSteps == {QueueRetentionDays * SecondsPerDay + 1}

TickDeadLetter ==
    /\ \E d \in DeadLetterTickSteps : Tick(d)
    /\ UNCHANGED <<txVars, call, queueVars, cacheVars, rateVars>>

NextDeadLetter ==
    \/ ProcessPendingQueue
    \/ RetryFailedItems
    \/ ProcessQueueItem
    \/ ArchiveOldQueuedItems
    \/ CleanupCompletedQueueItems
    \/ TickDeadLetter

SpecDeadLetter == InitDeadLetter /\ [][NextDeadLetter]_vars

----------------------------------------------------------------------------
(* Validation of the cache against the server: entries are cached,        *)
(* invalidated and validated while the clock runs past their expiry.      *)

NextValidate ==
    \/ CacheRecord
    \/ ValidateCache
    \/ InvalidateModelCache
    \/ TickCache

SpecValidate == InitC /\ [][NextValidate]_vars

----------------------------------------------------------------------------
(* Row locks on cache entries: entries are cached, locked by open         *)
(* transactions and read with use_lock=True.                              *)

InitLock ==
    /\ now = 0
    /\ budget = Budget(MaxLockTicks, 0, 0, MaxLockCalls, 0)
    /\ InitTx
    /\ call = [w \in Workers |-> Idle]
    /\ InitQueue(0)
    /\ InitCache

NextLock ==
    \/ CacheRecord
    \/ AcquireLock
    \/ EndTransaction
    \/ GetCachedRecordLocked
    \/ LockGranted
    \/ LockWaitFails
    \/ TickCache

SpecLock == InitLock /\ [][NextLock]_vars

----------------------------------------------------------------------------
(* The rate limiter on its own: threads call it while the clock runs.      *)

RateTickSteps == {PASSWORD_WINDOW_SECONDS - 1, 1}

TickRate ==
    /\ \E d \in RateTickSteps : Tick(d)
    /\ UNCHANGED <<txVars, call, queueVars, cacheVars, rateVars>>

InitLimiter ==
    /\ now = 0
    /\ budget = Budget(MaxRateTicks, 0, 0, 0, 0)
    /\ InitTx
    /\ call = [w \in Workers |-> Idle]
    /\ InitQueue(0)
    /\ InitCache

NextLimiter ==
    \/ CheckPasswordRateLimit
    \/ TickRate

SpecLimiter == InitLimiter /\ [][NextLimiter]_vars

----------------------------------------------------------------------------
(* The order of a retry run.  The table holds two transactions, created at *)
(* time 0 and at time 5 and both failed in their first sync_transaction at *)
(* time 5; they become due together.                                       *)

OrderTxs ==
    LET t(n, at) == [NewTx("u1", "order", "p1", n,
                           generate_idempotency_key(n, "p1", at))
                     EXCEPT !.created_at = at]
    IN  <<FailedRow(t(1, 0)), FailedRow(t(2, BackoffBase))>>

InitOrder ==
    /\ now = BackoffBase
    /\ budget = Budget(MaxOrderTicks, 0, 0, 0, MaxOrderSyncs)
    /\ txs = OrderTxs
    /\ nextTxId = Len(OrderTxs) + 1
    /\ remoteOk = <<0, 0>>
    /\ remoteTried = <<1, 1>>
    /\ lastTx = NoCall
    /\ call = [w \in Workers |-> Idle]
    /\ InitQueue(0)
    /\ InitCache

NextOrder ==
    \/ SyncTransaction
    \/ RetryFailedTransactions
    \/ TickRetry

SpecOrder == InitOrder /\ [][NextOrder]_vars

----------------------------------------------------------------------------
(* Abandoned attempts: items are enqueued, the scheduler runs                *)
(* process_pending_queue and retry_failed_items again and again, and an    *)
(* attempt may be abandoned after the item was marked processing.          *)

InitStale == InitQueued(0, Budget(0, MaxStaleEnqueue, MaxStaleFails, 0, 0))

NextStale ==
    \/ EnqueueTransaction
    \/ ProcessPendingQueue
    \/ RetryFailedItems
    \/ AbandonedRun

SpecStale ==
    /\ InitStale
    /\ [][NextStale]_vars
    /\ WF_vars(ProcessPendingQueue)
    /\ WF_vars(RetryFailedItems)

----------------------------------------------------------------------------
(* Re-submission: the table holds one pending transaction; the same call   *)
(* may be made again, sync_transaction is called on every row again and    *)
(* again with the remote confirming, and the scheduler keeps running.      *)

InitResubmit ==
    /\ now = 0
    /\ budget = Budget(0, 0, 0, 0, MaxSyncCalls)
    /\ txs = <<NewTx("u1", "order", "p1", 1, generate_idempotency_key(1, "p1", now))>>
    /\ nextTxId = 2
    /\ remoteOk = <<0>>
    /\ remoteTried = <<0>>
    /\ lastTx = NoCall
    /\ call = [w \in Workers |-> Idle]
    /\ InitQueue(0)
    /\ InitCache

\* sync_transaction on row i, the remote confirming
SyncConfirmed(i) ==
    /\ i \in DOMAIN txs
    /\ sync_transaction(i, "ok")
    /\ UNCHANGED <<now, budget, call, queueVars, cacheVars, rateVars>>

NextResubmit ==
    \/ CreateTransaction
    \/ SyncTransaction
    \/ RetryFailedTransactions

SpecResubmit ==
    /\ InitResubmit
    /\ [][NextResubmit]_vars
    /\ \A i \in 1..MaxTx : SF_vars(SyncConfirmed(i))
    /\ WF_vars(RetryFailedTransactions)

----------------------------------------------------------------------------
(* enqueue_transaction under concurrent calls: a worker reads the queue    *)
(* size and the last sequence, other workers may run, then it inserts.     *)
(* No lock is taken and the table has no constraint on sequence.           *)

\* lines 136-147: the two reads
BeginEnqueue(w) ==
    /\ call[w].pc = "idle"
    /\ budget.enq > 0
    /\ \E c \in QInputs :
         call' = [call EXCEPT ![w] =
                    [pc |-> "read",
                     args |-> <<c[1], c[2], c[3], search_count(c[1], "queued"),
                                next_sequence(c[1])>>,
                     key |-> NoKey, existing |-> {}, ret |-> NoCall]]
    /\ UNCHANGED <<now, budget, txVars, queueVars, cacheVars, rateVars>>

\* lines 149-171: the insert and the overflow check
FinishEnqueue(w) ==
    /\ call[w].pc = "read"
    /\ LET c == call[w].args
       IN  enqueue_after_read(c[1], c[2], c[3], c[4], c[5])
    /\ call' = [call EXCEPT ![w] = Idle]
    /\ UNCHANGED <<now, txVars, cacheVars, rateVars>>

EnqueueBegin == \E w \in Workers : BeginEnqueue(w)
EnqueueFinish == \E w \in Workers : FinishEnqueue(w)

InitEnqueueRace == InitQueued(0, Budget(0, MaxRaceEnqueue, 0, 0, 0))

NextEnqueueRace ==
    \/ EnqueueBegin
    \/ EnqueueFinish
    \/ ProcessPendingQueue

SpecEnqueueRace == InitEnqueueRace /\ [][NextEnqueueRace]_vars

----------------------------------------------------------------------------
(* cache_record under concurrent calls: a worker runs the search, other    *)
(* workers may run, then it updates the row it found or inserts one.  Each *)
(* call is a database transaction of its own (REPEATABLE READ): an update  *)
(* of a row that another transaction changed since the search is refused   *)
(* by the database; an insert is not, the table having no constraint on    *)
(* (user_id, model_name, record_id).                                       *)

\* lines 170-174: the search; the row found is kept as it was read
BeginCache(w) ==
    /\ call[w].pc = "idle"
    /\ budget.calls > 0
    /\ \E c \in CacheInputs :
         LET found == First(CacheSearch(c[1], c[2], c[3]))
         IN  \E e \in (IF found = {} THEN {{}} ELSE {{i} : i \in found}) :
                call' = [call EXCEPT ![w] =
                           [pc |-> "searched",
                            args |-> <<c[1], c[2], c[3], c[4],
                                       [i \in e |-> cache[i]]>>,
                            key |-> NoKey, existing |-> e, ret |-> NoCall]]
    /\ UNCHANGED <<now, budget, txVars, queueVars, cacheVars, rateVars>>

\* the row the worker read has been changed by a transaction committed since
ChangedSinceRead(w) ==
    \E i \in call[w].existing :
        i \notin DOMAIN cache \/ cache[i] # call[w].args[5][i]

\* lines 179-199: the update in place or the insert
FinishCache(w) ==
    /\ call[w].pc = "searched"
    /\ LET c == call[w].args
       IN  IF ChangedSinceRead(w)
           THEN /\ CacheCounted
                /\ lastCache' = CacheCall("cache_record", c[1], c[2], c[3], NoId,
                                          None, 0, "SerializationFailure")
                /\ UNCHANGED <<cache, nextCacheId, stale>>
           ELSE cache_after_search(c[1], c[2], c[3], c[4], call[w].existing)
    /\ call' = [call EXCEPT ![w] = Idle]
    /\ UNCHANGED <<now, txVars, queueVars, rateVars, rowLocks, blocked>>

CacheBegin == \E w \in Workers : BeginCache(w)
CacheFinish == \E w \in Workers : FinishCache(w)

InitCacheRace ==
    /\ now = 0
    /\ budget = Budget(0, 0, 0, MaxRaceCacheCalls, 0)
    /\ InitTx
    /\ call = [w \in Workers |-> Idle]
    /\ InitQueue(0)
    /\ InitCache

NextCacheRace ==
    \/ CacheBegin
    \/ CacheFinish

SpecCacheRace == InitCacheRace /\ [][NextCacheRace]_vars

----------------------------------------------------------------------------
(* The retention purges.  The transaction table holds a pending, a failed, *)
(* a duplicate and a synced row, as left by four create_transaction calls, *)
(* a repeated one and two sync_transaction calls; queue items are enqueued *)
(* and processed, and the clock passes either retention window, to the     *)
(* second.                                                                 *)

PurgeTxs ==
    LET t(n, data) == NewTx("u1", "order", data, n,
                            generate_idempotency_key(n, data, now))
    IN  <<t(1, "p1"), FailedRow(t(2, "p1")), MarkDuplicate(t(3, "p2")),
          SyncRow(t(4, "p2"), "ok")>>

InitPurge ==
    /\ now = 0
    /\ budget = Budget(MaxPurgeTicks, MaxPurgeEnqueue, 0, 0, MaxPurgeSyncs)
    /\ txs = PurgeTxs
    /\ nextTxId = Len(PurgeTxs) + 1
    /\ remoteOk = <<0, 0, 0, 1>>
    /\ remoteTried = <<0, 1, 0, 1>>
    /\ lastTx = NoCall
    /\ call = [w \in Workers |-> Idle]
    /\ InitQueue(0)
    /\ InitCache

PurgeTickSteps == {QueueRetentionDays * SecondsPerDay,
                   QueueRetentionDays * SecondsPerDay + 1,
                   TxRetentionDays * SecondsPerDay,
                   TxRetentionDays * SecondsPerDay + 1}

TickPurge ==
    /\ \E d \in PurgeTickSteps : Tick(d)
    /\ UNCHANGED <<txVars, call, queueVars, cacheVars, rateVars>>

NextPurge ==
    \/ SyncTransaction
    \/ EnqueueTransaction
    \/ ProcessPendingQueue
    \/ CleanupCompletedQueueItems
    \/ CleanupOldTransactions
    \/ TickPurge

SpecPurge == InitPurge /\ [][NextPurge]_vars

----------------------------------------------------------------------------
(* Deduplication *)

KeyStored(key) == \E i \in DOMAIN txs : txs[i].idempotency_key = key

\* this step is a create_transaction call whose key the table already held
CreateOfStoredKey ==
    /\ lastTx'.op = "create_transaction"
    /\ KeyStored(lastTx'.key)

KeysUnique ==
    \A i, j \in DOMAIN txs :
        i # j => txs[i].idempotency_key # txs[j].idempotency_key

C2_OriginalUntouched ==
    [][CreateOfStoredKey =>
         /\ lastTx'.status = "duplicate"
         /\ \A i \in DOMAIN txs :
              txs[i].idempotency_key = lastTx'.key =>
                 /\ i \in DOMAIN txs'
                 /\ txs'[i].sync_status = txs[i].sync_status
                 /\ txs'[i].transaction_data = txs[i].transaction_data]_vars

\* C3: create_transaction never changes the sync_status of a synced row.
C3_SyncedStaysSynced ==
    [][lastTx'.op = "create_transaction" =>
         \A i \in DOMAIN txs :
            txs[i].sync_status = "synced" =>
               i \in DOMAIN txs' /\ txs'[i].sync_status = "synced"]_vars

RacedSameKey ==
    /\ \A w \in Workers : call[w].pc = "idle" /\ call[w].ret.op = "create_transaction"
    /\ \A v, w \in Workers : call[v].key = call[w].key
    /\ \A w \in Workers : call[w].existing = {}

\* C4: when two create_transaction calls with the same key both make the
\* duplicate check before either inserts, one row is stored and neither call
\* fails: the loser returns the stored row.
C4_RaceHandled ==
    RacedSameKey =>
       /\ \A w \in Workers :
             /\ call[w].ret.status # "IntegrityError"
             /\ call[w].ret.id \in DOMAIN txs
             /\ txs[call[w].ret.id].idempotency_key = call[w].key
       /\ Cardinality({i \in DOMAIN txs :
                         \E w \in Workers : txs[i].idempotency_key = call[w].key}) = 1

----------------------------------------------------------------------------
(* The queue *)

StoredStatuses ==
    {"queued", "archived", "processing", "completed", "failed", "dead_letter"}

\* row i was deleted by cleanup_completed_queue_items while completed
PurgedWhenCompleted(i) ==
    \E g \in gone : /\ g.id = i
                    /\ g.by = "cleanup_completed_queue_items"
                    /\ g.status = "completed"

\* C6: every item ever enqueued is still stored, with one of the six
\* statuses, unless the retention purge of completed items deleted it.
C6_NoItemLost ==
    \A i \in 1..(nextQId - 1) :
        \/ i \in DOMAIN queue /\ queue[i].status \in StoredStatuses
        \/ PurgedWhenCompleted(i)

\* the queued rows of user u in table t
QueuedIds(t, u) ==
    {i \in DOMAIN t : t[i].user_id = u /\ t[i].status = "queued"}

\* this step is an enqueue_transaction call
EnqueueStep == nextQId' = nextQId + 1 /\ lastQ'.op = "enqueue_transaction"

\* this step is an enqueue_transaction call that found the threshold reached
EnqueueAtThreshold == EnqueueStep /\ lastQ'.size >= OverflowThreshold

\* the rows that were candidates for archival split into the kept ones, still
\* queued, and the archived ones, every kept one of higher sequence
KeptHighest(u, before, after) ==
    /\ after \subseteq before
    /\ Cardinality(after) = KeepOnOverflow
    /\ \A j \in before \ after :
          /\ queue'[j].status = "archived"
          /\ \A i \in after : queue'[j].sequence < queue'[i].sequence

\* C7: a user never has more than OverflowThreshold queued items; the
\* enqueue_transaction call that finds the threshold reached leaves exactly
\* the KeepOnOverflow highest-sequence items queued and archives the others;
\* after OverflowThreshold + 1 consecutive calls get_queue_stats reports
\* total = OverflowThreshold + 1 and queued = KeepOnOverflow.
C7_BacklogBounded ==
    /\ [](\A u \in Users : search_count(u, "queued") <= OverflowThreshold)
    /\ [][EnqueueAtThreshold =>
            KeptHighest(lastQ'.user,
                        QueuedIds(queue, lastQ'.user) \cup {lastQ'.id},
                        QueuedIds(queue', lastQ'.user))]_vars
    /\ [](\A u \in Users :
            qhist[u].enq = OverflowThreshold + 1 /\ ~qhist[u].other =>
               /\ get_queue_stats(u).total = OverflowThreshold + 1
               /\ get_queue_stats(u).queued = KeepOnOverflow)

\* user u1 has made OverflowThreshold + 1 consecutive enqueue_transaction
\* calls, the last of which archived
C7_Witness ==
    /\ lastQ.op = "enqueue_transaction"
    /\ lastQ.user = "u1"
    /\ lastQ.size = OverflowThreshold
    /\ qhist["u1"].enq = OverflowThreshold + 1
    /\ ~qhist["u1"].other
    /\ search_count("u1", "queued") = KeepOnOverflow
    /\ \E i \in DOMAIN queue : queue[i].status = "archived"

\* C8: every enqueue_transaction call assigns a sequence greater than every
\* sequence assigned to that user before.
C8_SequenceNeverReused ==
    lastQ.op = "enqueue_transaction" => lastQ.sequence > lastQ.high

\* this step is a process_pending_queue call that found items
ProcessPendingStep ==
    /\ lastQ'.op = "process_pending_queue"
    /\ lastQ' # lastQ
    /\ lastQ'.order # <<>>

\* C9: process_pending_queue attempts exactly the user's queued items, in
\* strictly ascending sequence order, and leaves every other row, archived
\* ones included, as it was.
C9_DrainInSequenceOrder ==
    [][ProcessPendingStep =>
         LET order == lastQ'.order
         IN  /\ Range(order) = QueuedIds(queue, lastQ'.user)
             /\ \A k \in 1..(Len(order) - 1) :
                   queue[order[k]].sequence < queue[order[k + 1]].sequence
             /\ \A i \in Range(order) :
                   queue'[i].attempts = queue[i].attempts + 1
             /\ \A i \in DOMAIN queue \ Range(order) :
                   queue'[i] = queue[i]]_vars

\* process_pending_queue has drained the items left queued by an overflow
\* archival, the archived ones staying archived
C9_Witness ==
    /\ lastQ.op = "process_pending_queue"
    /\ Len(lastQ.order) = KeepOnOverflow
    /\ \A i \in Range(lastQ.order) : queue[i].status = "completed"
    /\ \E i \in DOMAIN queue :
          queue[i].user_id = lastQ.user /\ queue[i].status = "archived"

----------------------------------------------------------------------------
(* The cache *)

\* this step is a get_cached_record call that returned a payload
GetReturnedPayload ==
    /\ budget'.calls = budget.calls - 1
    /\ lastCache'.op = "get_cached_record"
    /\ lastCache'.ret # None

\* C10: get_cached_record returns a payload only if at the time of the call
\* the entry's expires_at is still ahead and the entry has not been
\* invalidated since it was last cached.
C10_FreshOnly ==
    [][GetReturnedPayload =>
         \E i \in CacheSearch(lastCache'.user, lastCache'.model_name,
                              lastCache'.record_id) :
            /\ lastCache'.ret = cache[i].record_data
            /\ now < cache[i].expires_at
            /\ i \notin stale]_vars

\* this step is an invalidate_all_cache_on_reconnect call
ReconnectStep ==
    /\ budget'.calls = budget.calls - 1
    /\ lastCache'.op = "invalidate_all_cache_on_reconnect"

\* C11: invalidate_all_cache_on_reconnect completes without error however many
\* entries the user holds, and right after it every entry of the user is
\* invalid, so that get_cached_record finds none of them.
C11_ReconnectInvalidatesAll ==
    [][ReconnectStep =>
         /\ lastCache'.raised = "none"
         /\ \A i \in DOMAIN cache' :
               cache'[i].user_id = lastCache'.user => ~cache'[i].is_valid]_vars

\* this step is a cache_record call on a key that has an entry
RecacheStep ==
    /\ budget'.calls = budget.calls - 1
    /\ lastCache'.op = "cache_record"
    /\ CacheSearch(lastCache'.user, lastCache'.model_name, lastCache'.record_id) # {}

OneEntryPerKey ==
    \A i, j \in DOMAIN cache :
        /\ cache[i].user_id = cache[j].user_id
        /\ cache[i].model_name = cache[j].model_name
        /\ cache[i].record_id = cache[j].record_id
        => i = j

\* C12: there is one entry per (user, model, record id); cache_record on a key
\* that has an entry inserts nothing, raises cache_version by 1, stores the
\* new payload and its hash, and restarts created_at and expires_at, leaving
\* the entry valid for a full TTL even if it had been invalidated.
C12_RecacheInPlace ==
    /\ []OneEntryPerKey
    /\ [][RecacheStep =>
            /\ DOMAIN cache' = DOMAIN cache
            /\ \A i \in DOMAIN cache :
                  IF i = lastCache'.id
                  THEN /\ cache'[i].cache_version = cache[i].cache_version + 1
                       /\ cache'[i].record_data = lastCache'.ret
                       /\ cache'[i].data_hash = <<"sha256", lastCache'.ret>>
                       /\ cache'[i].created_at = now
                       /\ cache'[i].expires_at = now + CacheTtl
                       /\ cache'[i].is_valid
                       /\ i \notin stale'
                  ELSE cache'[i] = cache[i]]_vars

\* an entry was cached again with another payload after time had passed
C12_Witness ==
    /\ lastCache.op = "cache_record"
    /\ lastCache.id \in DOMAIN cache
    /\ cache[lastCache.id].cache_version = 2
    /\ cache[lastCache.id].record_data = "p2"
    /\ cache[lastCache.id].created_at > 0
    /\ cache[lastCache.id].is_valid

----------------------------------------------------------------------------
(* Retry *)

\* min(5 * 2^(n-1), 3600), as the claim states it
ClaimedDelay(n) ==
    LET d == 5 * (2 ^ (n - 1)) IN IF d < 3600 THEN d ELSE 3600

\* the delay row r of the transaction table waits after its last attempt
TxDelay(r) == r.next_retry_at - r.last_sync_attempt

\* the delay row r of the queue table waits after its last attempt
ItemDelay(r) == r.next_attempt_at - r.last_attempt_at

FailedTxs == {i \in DOMAIN txs : txs[i].sync_status = "failed"}
FailedItems == {i \in DOMAIN queue : queue[i].status = "failed"}

\* the values the claim names
NamedDelays(n, d) ==
    /\ n = 1 => d = 5
    /\ n = 5 => d = 80
    /\ n = 10 => d = 2560
    /\ n >= 11 => d = 3600

\* C13: the retry delay of a failed transaction and of a failed queue item is
\* min(5 * 2^(attempts-1), 3600) seconds after the last attempt: 5 s at
\* attempt 1, 80 s at 5, 2560 s at 10, 3600 s from 11 on, and never smaller
\* for a higher attempt count.
C13_BackoffDelay ==
    /\ \A i \in FailedTxs :
          /\ TxDelay(txs[i]) = ClaimedDelay(txs[i].sync_attempts)
          /\ NamedDelays(txs[i].sync_attempts, TxDelay(txs[i]))
    /\ \A j \in FailedItems :
          /\ ItemDelay(queue[j]) = ClaimedDelay(queue[j].attempts)
          /\ NamedDelays(queue[j].attempts, ItemDelay(queue[j]))
    /\ \A i \in FailedTxs, j \in FailedItems :
          /\ txs[i].sync_attempts <= queue[j].attempts =>
                TxDelay(txs[i]) <= ItemDelay(queue[j])
          /\ queue[j].attempts <= txs[i].sync_attempts =>
                ItemDelay(queue[j]) <= TxDelay(txs[i])

\* a transaction at attempt 11 waits the capped hour while a queue item at
\* attempt 5 waits 80 s
C13_Witness ==
    /\ \E i \in FailedTxs :
          txs[i].sync_attempts = 11 /\ TxDelay(txs[i]) = 3600
    /\ \E j \in FailedItems :
          queue[j].attempts = 5 /\ ItemDelay(queue[j]) = 80

AllowedTransitions ==
    { <<"pending", "synced">>, <<"pending", "failed">>, <<"failed", "synced">>,
      <<"failed", "failed">>, <<"failed", "dead_letter">> }

\* C14: the sync_status of a stored transaction changes only from pending to
\* synced or failed and from failed to synced, failed or dead_letter; synced
\* and dead_letter are never left.
C14_StatusTransitions ==
    [][\A i \in DOMAIN txs \cap DOMAIN txs' :
          txs'[i].sync_status # txs[i].sync_status =>
             <<txs[i].sync_status, txs'[i].sync_status>> \in AllowedTransitions]_vars

\* C15: a transaction whose failed attempts have reached MaxRetryAttempts is
\* in the terminal status dead_letter, not in failed.
C15_DeadLetterAtMaxAttempts ==
    \A i \in DOMAIN txs :
        /\ txs[i].sync_attempts >= MaxRetryAttempts
        /\ txs[i].sync_status \notin {"synced", "duplicate"}
        => txs[i].sync_status = "dead_letter"

\* C16: a transaction is synced only if the remote call returned a
\* confirmation; any other return leaves it failed.
C16_SyncedOnlyWhenConfirmed ==
    \A i \in DOMAIN txs :
        txs[i].sync_status = "synced" => txs[i].sync_response = <<"json", "ok">>

\* transaction i is stored and pending
Pending(i) == i \in DOMAIN txs /\ txs[i].sync_status = "pending"

\* a remote call has been made for transaction i
Attempted(i) == i \in DOMAIN remoteTried /\ remoteTried[i] > 0

\* C17: with the scheduler running again and again and the remote confirming,
\* every pending transaction is eventually attempted and becomes synced.
C17_PendingEventuallySynced ==
    \A i \in 1..MaxTx :
        Pending(i) ~> (Attempted(i) /\ txs[i].sync_status = "synced")

\* C18: once a queue item is dead_letter it stays in the table, and no
\* operation on the queue changes its status or its attempts.
C18_DeadLetterTerminal ==
    [][\A i \in DOMAIN queue :
          queue[i].status = "dead_letter"
          => /\ i \in DOMAIN queue'
             /\ queue'[i].status = "dead_letter"
             /\ queue'[i].attempts = queue[i].attempts]_vars

\* process_queue_item has just been called on a dead_letter item
C18_Witness ==
    /\ lastQ.op = "process_queue_item"
    /\ lastQ.id \in DOMAIN queue
    /\ queue[lastQ.id].status = "dead_letter"
    /\ lastQ.ret.status = "in_dead_letter_queue"

\* item i went through a processing attempt that failed: the row changed,
\* and the step neither completed nor archived it
FailedAttempt(i) ==
    /\ i \in DOMAIN queue'
    /\ queue'[i] # queue[i]
    /\ queue'[i].completed_at = NoTime
    /\ queue'[i].archived_at = queue[i].archived_at
    /\ queue'[i].last_attempt_at = now

\* C19: a failed attempt adds exactly 1 to attempts and leaves the item
\* failed below 5 attempts, dead_letter from 5 on; so every failed item has
\* 1 to 4 attempts and every dead_letter item at least 5.
C19_FailedAttemptCounts ==
    /\ [](\A i \in DOMAIN queue :
            /\ queue[i].status = "failed"
               => queue[i].attempts >= 1 /\ queue[i].attempts < 5
            /\ queue[i].status = "dead_letter" => queue[i].attempts >= 5)
    /\ [][\A i \in DOMAIN queue :
            FailedAttempt(i)
            => /\ queue'[i].attempts = queue[i].attempts + 1
               /\ queue'[i].status =
                     IF queue'[i].attempts < 5 THEN "failed" ELSE "dead_letter"]_vars

\* retry_failed_items has just moved an item to the dead letter queue
C19_Witness ==
    /\ lastQ.op = "retry_failed_items"
    /\ \E j \in 1..Len(lastQ.order) :
          /\ lastQ.order[j] \in DOMAIN queue
          /\ queue[lastQ.order[j]].status = "dead_letter"
          /\ queue[lastQ.order[j]].attempts = 5

\* the step is a process_queue_item call on item i
ProcessItemStep(i) ==
    /\ lastQ'.op = "process_queue_item"
    /\ lastQ'.id = i
    /\ queue' # queue \/ lastQ' # lastQ \/ budget' # budget

\* C20: process_queue_item on a completed item returns success and changes
\* no field of it; on a dead_letter item it returns success = false and
\* changes no field of it.
C20_TerminalItemsUntouched ==
    [][\A i \in DOMAIN queue :
          ProcessItemStep(i) /\ queue[i].status \in {"completed", "dead_letter"}
          => /\ queue' = queue
             /\ lastQ'.ret.success = (queue[i].status = "completed")]_vars

\* process_queue_item has just been called on a completed item
C20_Witness ==
    /\ lastQ.op = "process_queue_item"
    /\ lastQ.id \in DOMAIN queue
    /\ queue[lastQ.id].status = "completed"
    /\ lastQ.ret = Result(TRUE, "already_completed")

----------------------------------------------------------------------------
(* Ownership of transactions *)

\* the step is a create_transaction call
CreateStep == lastTx'.op = "create_transaction" /\ lastTx' # lastTx

\* C21: create_transaction hands its caller a record of the caller's own
\* (so two users with the same type, payload and order id get two records)
\* and changes no row of another user.
C21_UsersGetOwnRecords ==
    [][CreateStep
       => /\ lastTx'.id \in DOMAIN txs'
          /\ txs'[lastTx'.id].user_id = lastTx'.user
          /\ \A i \in DOMAIN txs :
                txs[i].user_id # lastTx'.user => txs'[i] = txs[i]]_vars

\* C22: the idempotency key of a stored transaction starts with the
\* transaction type it was created with.
C22_KeyPrefixedWithType ==
    \A i \in DOMAIN txs : txs[i].idempotency_key[1] = txs[i].transaction_type

----------------------------------------------------------------------------
(* Ownership of cache entries *)

\* the step is a call of `user` on the cache model
CacheCallBy(user) ==
    /\ budget'.calls = budget.calls - 1
    /\ lastCache'.user = user

\* C23: a payload returned by get_cached_record comes from an entry of the
\* caller, and no call of a user on the cache model (cache_record,
\* get_cached_record, invalidate_model_cache,
\* invalidate_all_cache_on_reconnect) changes an entry of another user.
C23_CachePrivate ==
    [][\A user \in Users :
          CacheCallBy(user)
          => /\ \A i \in DOMAIN cache :
                   cache[i].user_id # user
                   => i \in DOMAIN cache' /\ cache'[i] = cache[i]
             /\ lastCache'.op = "get_cached_record" /\ lastCache'.ret # None
                => /\ lastCache'.id \in DOMAIN cache
                   /\ cache[lastCache'.id].user_id = user
                   /\ cache[lastCache'.id].record_data = lastCache'.ret]_vars

\* a user has just read their own payload while another user holds a
\* different payload under the same model and record id
C23_Witness ==
    /\ lastCache.op = "get_cached_record"
    /\ lastCache.ret # None
    /\ \E i \in DOMAIN cache :
          /\ cache[i].user_id # lastCache.user
          /\ cache[i].model_name = lastCache.model_name
          /\ cache[i].record_id = lastCache.record_id
          /\ cache[i].is_valid
          /\ cache[i].record_data # lastCache.ret

\* the step is a validate_cache call
ValidateStep ==
    /\ budget'.calls = budget.calls - 1
    /\ lastCache'.op = "validate_cache"

\* entry i is valid now: not yet expired and not invalidated since cached
ValidNow(i) == cache[i].expires_at > now /\ i \notin stale

\* C24: validate_cache returns no_cache when the caller has no entry for
\* the key, expired when the entry is not valid, data_changed when a hash is
\* supplied and differs from the stored one, cache_fresh otherwise; valid is
\* true exactly with cache_fresh; and every stored data_hash is the hash of
\* the stored record_data.
C24_ValidateReasons ==
    /\ [](\A i \in DOMAIN cache :
             cache[i].data_hash = compute_data_hash(cache[i].record_data))
    /\ [][ValidateStep
          => LET c == lastCache'
                 found == CacheSearch(c.user, c.model_name, c.record_id)
             IN  /\ c.valid = (c.ret = "cache_fresh")
                 /\ c.ret =
                      IF found = {} THEN "no_cache"
                      ELSE IF \E i \in found : ~ValidNow(i) THEN "expired"
                      ELSE IF c.hash # NoHash
                              /\ \E i \in found : cache[i].data_hash # c.hash
                      THEN "data_changed"
                      ELSE "cache_fresh"]_vars

\* the step is a get_cached_record(use_lock=True) call that found a valid
\* entry whose row lock another transaction holds
LockedGetStep ==
    /\ budget'.calls = budget.calls - 1
    /\ blocked = NotBlocked
    /\ \E k \in CacheKeys :
          /\ \E i \in First(CacheSearchValid(k[1], k[2], k[3])) : i \in rowLocks
          /\ \/ blocked' # NotBlocked /\ blocked'[1] = k[1]
                /\ blocked'[2] = k[2] /\ blocked'[3] = k[3]
             \/ /\ lastCache'.op = "get_cached_record"
                /\ lastCache'.user = k[1]
                /\ lastCache'.model_name = k[2]
                /\ lastCache'.record_id = k[3]

\* C25: get_cached_record with use_lock on an entry whose row lock is held
\* by another transaction does not wait and does not raise: the call
\* returns at once, and what it returns is a miss.
C25_LockFailsClosed ==
    [][LockedGetStep
       => /\ blocked' = NotBlocked
          /\ lastCache'.op = "get_cached_record"
          /\ lastCache'.ret = None
          /\ lastCache'.raised = "none"]_vars

----------------------------------------------------------------------------
(* Rate limiting of password validation *)

\* the threads whose call for `user` has returned
Returned(user) ==
    {t \in Threads : thread[t].pc = "returned" /\ thread[t].user = user}

\* the attempts of `user` admitted in the 60 seconds that end at time t
AdmittedInWindow(user, t) ==
    Len(SelectSeq(admitted[user],
                  LAMBDA ts : ts > t - PASSWORD_WINDOW_SECONDS /\ ts <= t))

\* C26: per user at most 5 attempts are admitted in any 60-second window;
\* of the calls made for one user at the same time exactly min(N, 5) are
\* admitted, however the threads interleave; and a call for one user leaves
\* the attempts of the other users alone.
C26_RateLimit ==
    /\ [](\A user \in Users :
            /\ \A j \in 1..Len(admitted[user]) :
                  AdmittedInWindow(user, admitted[user][j]) <= MAX_PASSWORD_ATTEMPTS
            /\ now = 0 =>
                  /\ Cardinality({t \in Returned(user) : thread[t].ret})
                       = Min(Cardinality(Returned(user)), MAX_PASSWORD_ATTEMPTS)
                  /\ Len(admitted[user])
                       = Min(Cardinality(Returned(user)), MAX_PASSWORD_ATTEMPTS))
    /\ [][\A t \in Threads, user \in Users :
             thread[t].user # user /\ thread'[t] # thread[t]
             => /\ password_attempts'[user] = password_attempts[user]
                /\ admitted'[user] = admitted[user]]_vars

\* every thread has called for the same user at the same time, five calls
\* were admitted and the others refused
C26_Witness ==
    /\ now = 0
    /\ \E user \in Users :
          /\ Returned(user) = Threads
          /\ Cardinality({t \in Threads : thread[t].ret}) = MAX_PASSWORD_ATTEMPTS
          /\ Cardinality({t \in Threads : ~thread[t].ret})
               = MaxThreads - MAX_PASSWORD_ATTEMPTS
          /\ MaxThreads > MAX_PASSWORD_ATTEMPTS

----------------------------------------------------------------------------
(* Retry and containment of failures *)

\* the step is a run of retry_failed_transactions
RetryStep == lastTx'.op = "retry_failed_transactions" /\ lastTx' # lastTx

\* C27: a run of retry_failed_transactions attempts exactly the failed
\* transactions with fewer than 10 attempts whose next_retry_at has come.
C27_RetryOnlyWhenDue ==
    [][RetryStep => lastTx'.remote = DueForRetry]_vars

\* in this step the remote call for transaction i was made and raised
RemoteRaised(i) ==
    /\ i \in DOMAIN txs'
    /\ remoteTried'[i] = remoteTried[i] + 1
    /\ remoteOk'[i] = remoteOk[i]

\* C28: when the remote call raises, sync_transaction returns a failure
\* result instead of raising, and the transaction is failed, with one more
\* attempt, the error, the time of the attempt, and a next_retry_at computed
\* from the new attempt count.
C28_FailureContained ==
    [][\A i \in DOMAIN txs :
          RemoteRaised(i)
          => /\ lastTx'.op = "sync_transaction" => lastTx'.status = "failed"
             /\ txs'[i].sync_status = "failed"
             /\ txs'[i].sync_attempts = txs[i].sync_attempts + 1
             /\ txs'[i].error_message = "error"
             /\ txs'[i].last_sync_attempt = now
             /\ txs'[i].next_retry_at = now + Backoff(txs[i].sync_attempts + 1)]_vars

\* sync_transaction has just failed for the third time
C28_Witness ==
    /\ lastTx.op = "sync_transaction"
    /\ lastTx.status = "failed"
    /\ lastTx.id \in DOMAIN txs
    /\ txs[lastTx.id].sync_attempts = 3
    /\ txs[lastTx.id].next_retry_at = now + 20

----------------------------------------------------------------------------
(* Retention of queue items *)

\* C29: a queue item that is dead_letter, archived, queued or failed is
\* never removed from the queue table, whatever is purged around it.
C29_UnfinishedItemsKept ==
    [][\A i \in DOMAIN queue :
          queue[i].status \in {"dead_letter", "archived", "queued", "failed"}
          => i \in DOMAIN queue']_vars

\* the step is a call _archive_old_queued_items(keep) for `user`
ArchiveStep(user, keep) ==
    /\ lastQ'.op = "_archive_old_queued_items"
    /\ lastQ'.user = user
    /\ lastQ'.high = keep
    /\ lastQ' # lastQ \/ queue' # queue

\* the queued items of `user` in table t
QueuedOf(t, user) ==
    {i \in DOMAIN t : t[i].user_id = user /\ t[i].status = "queued"}

\* C30: _archive_old_queued_items(keep) leaves queued exactly the keep
\* highest-sequence queued items of the owner (all of them if there are
\* fewer), archives the others with archived_at stamped, changes no other
\* item and deletes none.
C30_ArchiveKeepsNewest ==
    [][\A user \in Users, keep \in ArchiveKeeps :
          ArchiveStep(user, keep)
          => LET before == QueuedOf(queue, user)
                 after == QueuedOf(queue', user)
             IN  /\ DOMAIN queue' = DOMAIN queue
                 /\ after \subseteq before
                 /\ Cardinality(after) = Min(keep, Cardinality(before))
                 /\ \A i \in after, j \in before \ after :
                       queue[i].sequence > queue[j].sequence
                 /\ \A i \in DOMAIN queue :
                       queue'[i] = IF i \in before \ after
                                   THEN [queue[i] EXCEPT !.status = "archived",
                                                         !.archived_at = now]
                                   ELSE queue[i]]_vars

----------------------------------------------------------------------------
(* The retention purges *)

\* the step is a run of cleanup_old_transactions
CleanupTxStep ==
    /\ lastTx'.op = "cleanup_old_transactions"
    /\ lastTx' # lastTx \/ txs' # txs

\* the step is a run of cleanup_completed_queue_items
CleanupQueueStep ==
    /\ lastQ'.op = "cleanup_completed_queue_items"
    /\ lastQ' # lastQ \/ queue' # queue

\* C31: cleanup_old_transactions(30) removes exactly the transactions that
\* are synced with synced_at before now - 30 days, and
\* cleanup_completed_queue_items(7) removes exactly the queue items that are
\* completed with completed_at before now - 7 days; a pending, failed or
\* duplicate transaction is removed by no step.
C31_PurgeOnlyFinishedAndOld ==
    [][/\ CleanupTxStep
          => \A i \in DOMAIN txs :
                i \notin DOMAIN txs'
                <=> /\ txs[i].sync_status = "synced"
                    /\ txs[i].synced_at < now - TxRetentionDays * SecondsPerDay
       /\ CleanupQueueStep
          => \A i \in DOMAIN queue :
                i \notin DOMAIN queue'
                <=> /\ queue[i].status = "completed"
                    /\ queue[i].completed_at
                         < now - QueueRetentionDays * SecondsPerDay
       /\ \A i \in DOMAIN txs :
             txs[i].sync_status \in {"pending", "failed", "duplicate"}
             => i \in DOMAIN txs']_vars

\* both purges have removed a row, while a transaction synced since, the
\* failed and the duplicate one are still stored
C31_Witness ==
    /\ \E g \in gone : g.by = "cleanup_completed_queue_items"
    /\ lastTx.op = "cleanup_old_transactions"
    /\ 4 \notin DOMAIN txs
    /\ \E i \in DOMAIN txs :
          /\ txs[i].sync_status = "synced"
          /\ txs[i].synced_at = now
    /\ \E i \in DOMAIN txs : txs[i].sync_status = "failed"
    /\ \E i \in DOMAIN txs : txs[i].sync_status = "duplicate"

----------------------------------------------------------------------------
(* Invalidation and the sweep of the cache *)

\* the step is a call of invalidate_model_cache or
\* invalidate_all_cache_on_reconnect
InvalidateStep ==
    /\ lastCache'.op \in {"invalidate_model_cache",
                          "invalidate_all_cache_on_reconnect"}
    /\ budget'.calls # budget.calls

\* C32: invalidate_all_cache_on_reconnect and invalidate_model_cache leave
\* every cache row in place with record_data, cache_version and
\* accessed_count unchanged; a row leaves the table only in a run of
\* cleanup_expired_cache, and only if its expires_at was before now.
C32_InvalidateKeepsRows ==
    [][/\ InvalidateStep
          => /\ DOMAIN cache' = DOMAIN cache
             /\ \A i \in DOMAIN cache :
                   /\ cache'[i].record_data = cache[i].record_data
                   /\ cache'[i].cache_version = cache[i].cache_version
                   /\ cache'[i].accessed_count = cache[i].accessed_count
       /\ \A i \in DOMAIN cache :
             i \notin DOMAIN cache'
             => /\ lastCache'.op = "cleanup_expired_cache"
                /\ cache[i].expires_at < now]_vars

\* the sweep has just deleted a row and left an invalidated row that has
\* not expired
C32_Witness ==
    /\ lastCache.op = "cleanup_expired_cache"
    /\ lastCache.count > 0
    /\ \E i \in DOMAIN cache : /\ i \in stale
                               /\ ~cache[i].is_valid
                               /\ cache[i].expires_at > now

\* the step is a call invalidate_model_cache(model_name, record_id) with a
\* record id
InvalidateRecordStep ==
    /\ lastCache'.op = "invalidate_model_cache"
    /\ lastCache'.record_id # NoRecord
    /\ budget'.calls # budget.calls

\* C33: invalidate_model_cache(model, record_id) with a record id, 0
\* included, invalidates the owner's entry for that record and changes no
\* other entry.
C33_InvalidateOneRecord ==
    [][InvalidateRecordStep
          => \A i \in DOMAIN cache :
                IF i \in CacheSearch(lastCache'.user, lastCache'.model_name,
                                     lastCache'.record_id)
                THEN ~cache'[i].is_valid
                ELSE cache'[i] = cache[i]]_vars

----------------------------------------------------------------------------
(* The order of a retry run *)

\* C34: in a run of retry_failed_transactions, of two transactions that are
\* both due, the one created earlier is attempted first.
C34_RetryOldestFirst ==
    [][RetryStep
          => \A a, b \in 1..Len(lastTx'.order) :
                /\ a < b
                /\ lastTx'.order[a] \in DueForRetry
                /\ lastTx'.order[b] \in DueForRetry
                => txs[lastTx'.order[a]].created_at
                     <= txs[lastTx'.order[b]].created_at]_vars

----------------------------------------------------------------------------
(* The order of processing *)

\* the step is a run of process_pending_queue or retry_failed_items
QueueRunStep ==
    /\ lastQ'.op \in {"process_pending_queue", "retry_failed_items"}
    /\ lastQ' # lastQ \/ queue' # queue

\* the status of item j at the moment the k-th item of the run is taken
StatusWhenTaken(j, k) ==
    IF \E m \in 1..(k - 1) : lastQ'.order[m] = j
    THEN queue'[j].status ELSE queue[j].status

\* C35: when a run of process_pending_queue or retry_failed_items takes an
\* item into processing, no item of the same owner with a lower sequence is
\* waiting (queued, or failed and awaiting its retry).
C35_FifoWithinOwner ==
    [][QueueRunStep
          => \A k \in 1..Len(lastQ'.order) :
                \A j \in DOMAIN queue :
                   /\ queue[j].user_id = queue[lastQ'.order[k]].user_id
                   /\ queue[j].sequence < queue[lastQ'.order[k]].sequence
                   => StatusWhenTaken(j, k) \notin {"queued", "failed"}]_vars

\* the step is a run of retry_failed_items
RetryItemsStep ==
    /\ lastQ'.op = "retry_failed_items"
    /\ lastQ' # lastQ \/ queue' # queue

\* C36: a run of retry_failed_items processes no failed item whose
\* next_attempt_at (last_attempt_at plus the backoff delay) is still ahead.
C36_RetryItemsAfterBackoff ==
    [][RetryItemsStep
          => \A k \in 1..Len(lastQ'.order) :
                queue[lastQ'.order[k]].next_attempt_at <= now]_vars

----------------------------------------------------------------------------
(* Abandoned attempts *)

\* item i is stored with status processing
StoredProcessing(i) == i \in DOMAIN queue /\ queue[i].status = "processing"

\* C37: with process_pending_queue and retry_failed_items running again and
\* again, a queue item that an abandoned attempt left processing is
\* eventually attempted again and leaves that status.
C37_ProcessingNotForever ==
    \A i \in 1..MaxStaleEnqueue : StoredProcessing(i) ~> ~StoredProcessing(i)

----------------------------------------------------------------------------
(* Re-submission of a transaction that is not yet synced *)

\* create_transaction was called again with the content of transaction i
\* before the remote confirmed it
Resubmitted(i) ==
    /\ i \in DOMAIN txs
    /\ txs[i].sync_status = "duplicate"
    /\ remoteOk[i] = 0

\* C38: with sync_transaction and the scheduler running again and again and
\* the remote confirming, a transaction that was re-submitted before it was
\* synced is eventually sent to the remote and becomes synced.
C38_ResubmittedEventuallySynced ==
    \A i \in 1..MaxTx :
        Resubmitted(i) ~> /\ i \in DOMAIN txs
                          /\ remoteOk[i] > 0
                          /\ txs[i].sync_status = "synced"

----------------------------------------------------------------------------
(* Concurrent calls on the queue and the cache *)

\* C39: the queue items of one owner have distinct sequence numbers, also
\* when two enqueue_transaction calls of the owner overlap.
C39_ConcurrentSequencesDistinct ==
    \A i, j \in DOMAIN queue :
        i # j /\ queue[i].user_id = queue[j].user_id
        => queue[i].sequence # queue[j].sequence

\* the step is a cache_record call that wrote row i, which was stored before
RecachedRow(i) ==
    /\ lastCache'.op = "cache_record"
    /\ lastCache'.raised = "none"
    /\ lastCache'.id = i
    /\ budget'.calls = budget.calls - 1

\* C40: also when cache_record calls for one key overlap, the table holds
\* one entry per (user, model, record id), and every call that returns
\* raises the stored cache_version by one (no version bump is lost).
C40_ConcurrentRecacheOneEntry ==
    /\ []OneEntryPerKey
    /\ [][\A i \in DOMAIN cache :
             RecachedRow(i)
             => cache'[i].cache_version = cache[i].cache_version + 1]_vars

====
